---- MODULE Spec2Model ----
(***************************************************************************)
(* Model of the dfloat repository: xu::biguint<w> (include/biguint.hpp)    *)
(* and xu::dfloat (include/dfloat.hpp).                                    *)
(*                                                                         *)
(* TLC evaluates on 32-bit integers, so the two widths of the program that *)
(* do not fit are scaled down and named as bounds: a word of biguint has   *)
(* WordBits bits instead of 32, and the mantissa of dfloat has             *)
(* MantDigits + 1 decimal digits instead of 18.  Every literal of the      *)
(* source that is derived from those widths (32, 31, 0xFFFFFFFF, SCALE,    *)
(* MANT_CAP) is written in terms of them.                                  *)
(***************************************************************************)
EXTENDS Integers, Sequences, FiniteSets, Bags, TLC

VARIABLES
    big_a, big_b,       \* biguint: the two operands (this, other)
    big_n,              \* biguint: shift count or word index argument
    big_c,              \* biguint: third operand of a chained product
    big_op,             \* biguint: the operation that was applied
    big_res,            \* biguint: the value returned
    big_res2,           \* biguint: second value returned by paired evaluations
    big_err,            \* biguint: the exception thrown, or "none"
    df_lhs, df_rhs,     \* dfloat: the operands of the last operator call
    df_op,              \* dfloat: the last operator called
    df_res,             \* dfloat: the value it returned (the running value)
    df_finite,          \* dfloat: isfinite() of the value returned
    df_status,          \* dfloat: "ok", or how the last call failed to return
    df_cnt,             \* dfloat: number of operator calls made so far
    df_cmp,             \* dfloat: what the six relational operators returned
    int_a, int_b,       \* dfloat: the integers the operands were built from
    pr,                 \* print_to: the value, the threshold, the stream
    ps                  \* parse: the locals of dfloat::parse and its position

bigvars == <<big_a, big_b, big_n, big_c, big_op, big_res, big_res2, big_err>>

dfvars == <<df_lhs, df_rhs, df_op, df_res, df_finite, df_status, df_cnt,
            df_cmp, int_a, int_b, pr>>

psvars == <<ps>>

vars == <<big_a, big_b, big_n, big_c, big_op, big_res, big_res2, big_err,
          df_lhs, df_rhs, df_op, df_res, df_finite, df_status, df_cnt,
          df_cmp, int_a, int_b, pr, ps>>

(***************************************************************************)
(* Bounds                                                                  *)
(***************************************************************************)
\* number of bits of one word in the model (32 in the source)
WordBits == 2

\* template parameter w: number of words of a biguint
W == 2

\* how far beyond the total bit width the shift counts go
ShiftExtra == 2

(***************************************************************************)
(* Arithmetic helpers                                                      *)
(***************************************************************************)
RECURSIVE Pow2(_)
Pow2(n) ==
    IF n = 0 THEN 1
    ELSE LET half == Pow2(n \div 2)
         IN  IF n % 2 = 0 THEN half * half ELSE 2 * half * half

WORD_SIZE == WordBits

\* number of values of one word: uint32_t arithmetic is modulo WordMod
WordMod == Pow2(WORD_SIZE)

WordMax == WordMod - 1

Words == 0..WordMax

BigValues == [0..(W - 1) -> Words]

\* bitwise operators of the C++ unsigned types, on operands below 2^n
RECURSIVE BitOr(_, _, _)
BitOr(x, y, n) ==
    IF n = 0 THEN 0
    ELSE (IF (x % 2 = 1) \/ (y % 2 = 1) THEN 1 ELSE 0)
         + 2 * BitOr(x \div 2, y \div 2, n - 1)

RECURSIVE BitAnd(_, _, _)
BitAnd(x, y, n) ==
    IF n = 0 THEN 0
    ELSE (IF (x % 2 = 1) /\ (y % 2 = 1) THEN 1 ELSE 0)
         + 2 * BitAnd(x \div 2, y \div 2, n - 1)

(***************************************************************************)
(* biguint: helpers                                                        *)
(***************************************************************************)
\* addCarry that misses the wraparound of a + b
addCarry_DropFirst(a, b, c) ==
    LET res1   == (a + b) % WordMod
        res2   == (res1 + c) % WordMod
        carry2 == IF res2 < c THEN 1 ELSE 0
    IN  [out |-> res2, carry |-> carry2]

\* addCarry(a, b, c, out): returns the carry, stores the sum in out
addCarry(a, b, c) ==
    LET res1   == (a + b) % WordMod
        carry1 == IF res1 < b THEN 1 ELSE 0
        res2   == (res1 + c) % WordMod
        carry2 == IF res2 < c THEN 1 ELSE 0
    IN  [out |-> res2, carry |-> carry1 + carry2]

\* multiplyParts(a, b, out_upper, out_lower)
multiplyParts(a, b) ==
    LET out == a * b
    IN  [out_upper |-> out \div WordMod, out_lower |-> out % WordMod]

\* biguint(): words{0}
BigZero == [i \in 0..(W - 1) |-> 0]

\* biguint(const uint32_t value)
BigFromWord(value) == [i \in 0..(W - 1) |-> IF i = 0 THEN value ELSE 0]

\* operator~
BigNot(a) == [i \in 0..(W - 1) |-> WordMax - a[i]]

\* operator|
BigOr(a, b) == [i \in 0..(W - 1) |-> BitOr(a[i], b[i], WORD_SIZE)]

\* _isZero
_isZero(a) == \A i \in 0..(W - 1) : a[i] = 0

\* _comparedTo: most significant word first
RECURSIVE ComparedFrom(_, _, _)
ComparedFrom(a, b, i) ==
    IF i >= W THEN 0
    ELSE LET ii == W - 1 - i
         IN  IF a[ii] > b[ii] THEN 1
             ELSE IF a[ii] < b[ii] THEN -1
             ELSE ComparedFrom(a, b, i + 1)

_comparedTo(a, b) == ComparedFrom(a, b, 0)

\* operator<= that holds for a smaller operand only
BigLe_Strict(a, b) == 0 > _comparedTo(a, b)

\* operator<=
BigLe(a, b) == 0 >= _comparedTo(a, b)

\* operator==
BigEq(a, b) == 0 = _comparedTo(a, b)

\* operator!=
BigNe(a, b) == 0 # _comparedTo(a, b)

\* operator>
BigGt(a, b) == 1 = _comparedTo(a, b)

\* operator<
BigLt(a, b) == -1 = _comparedTo(a, b)

\* operator>= that holds for a greater operand only
BigGe_Strict(a, b) == 0 < _comparedTo(a, b)

\* operator>=
BigGe(a, b) == 0 <= _comparedTo(a, b)

\* _getBit
_getBit(a, at) ==
    LET word_idx == at \div WORD_SIZE
        bit_idx  == at % WORD_SIZE
    IN  (a[word_idx] \div Pow2(bit_idx)) % 2

\* _setBit
_setBit(a, at, to) ==
    LET word_idx == at \div WORD_SIZE
        bit_idx  == at % WORD_SIZE
        bit_msk  == Pow2(bit_idx)
        cleared  == BitAnd(a[word_idx], WordMax - bit_msk, WORD_SIZE)
    IN  IF to = 0
        THEN [a EXCEPT ![word_idx] = cleared]
        ELSE [a EXCEPT ![word_idx] = BitOr(cleared, bit_msk, WORD_SIZE)]

\* _leftShiftOneBit that loses the bit crossing a word boundary
_leftShiftOneBit_NoCarry(a) ==
    [ii \in 0..(W - 1) |-> (a[ii] * 2) % WordMod]

\* _leftShiftOneBit: from the top word down, each word takes the top bit of
\* the word below, which has not been written yet
_leftShiftOneBit(a) ==
    [ii \in 0..(W - 1) |->
        IF ii = 0 THEN (a[0] * 2) % WordMod
        ELSE BitOr((a[ii] * 2) % WordMod,
                   a[ii - 1] \div Pow2(WORD_SIZE - 1), WORD_SIZE)]

\* _leftShiftOneWord
_leftShiftOneWord(a) ==
    [ii \in 0..(W - 1) |-> IF ii = 0 THEN 0 ELSE a[ii - 1]]

\* _rightShiftOneBit: the body in the source moves every word one index
\* down and clears the top word
_rightShiftOneBit(a) ==
    [i \in 0..(W - 1) |-> IF i = W - 1 THEN 0 ELSE a[i + 1]]

\* _rightShiftOneWord is declared in biguint.h and defined nowhere: a
\* program that keeps a call of it does not link, and the operator that
\* makes the call gives no outcome, neither a value nor an exception
NoDefinition == <<"no definition">>

(***************************************************************************)
(* biguint: operators                                                      *)
(***************************************************************************)
\* operator<<: remaining single-bit shifts
RECURSIVE ShlBits(_, _)
ShlBits(res, shift) ==
    IF shift > 0 THEN ShlBits(_leftShiftOneBit(res), shift - 1) ELSE res

\* operator<<: whole-word shifts first
RECURSIVE BigShl(_, _)
BigShl(res, shift) ==
    IF shift >= WORD_SIZE
    THEN BigShl(_leftShiftOneWord(res), shift - WORD_SIZE)
    ELSE ShlBits(res, shift)

\* operator>>: remaining single-bit shifts
RECURSIVE ShrBits(_, _)
ShrBits(res, shift) ==
    IF shift > 0 THEN ShrBits(_rightShiftOneBit(res), shift - 1) ELSE res

\* operator>>, the outcomes a build produces.  The body of
\* while (shift >= WORD_SIZE) calls _rightShiftOneWord, which has no
\* definition: the program links only where the compiler drops the call,
\* which it can do for a shift it knows to be below WORD_SIZE, and the
\* shift then goes to the single-bit loop at once.  Every other build, and
\* every build for a shift of WORD_SIZE or more, gives no program.
BigShr(res, shift) ==
    IF shift >= WORD_SIZE
    THEN {NoDefinition}
    ELSE {NoDefinition, ShrBits(res, shift)}

\* operator+: the loop over the words, carrying from word i to word i + 1
RECURSIVE AddLoop(_, _, _, _, _)
AddLoop(a, b, i, carry, res) ==
    IF i >= W THEN res
    ELSE LET ac == addCarry(a[i], b[i], carry)
         IN  AddLoop(a, b, i + 1, ac.carry, [res EXCEPT ![i] = ac.out])

BigAdd(a, b) == AddLoop(a, b, 0, 0, BigZero)

\* operator+: the arguments of each call of addCarry, in order; upper is
\* what the caller adds to the carry returned, 0 in operator+
RECURSIVE AddCalls(_, _, _, _)
AddCalls(a, b, i, carry) ==
    IF i >= W THEN <<>>
    ELSE <<[a |-> a[i], b |-> b[i], c |-> carry, upper |-> 0]>>
             \o AddCalls(a, b, i + 1, addCarry(a[i], b[i], carry).carry)

\* operator- that adds the complement without the + 1u
BigSub_NoPlusOne(a, b) == BigAdd(a, BigNot(b))

\* operator-: operator+(~other + 1u)
BigSub(a, b) == BigAdd(a, BigAdd(BigNot(b), BigFromWord(1)))

\* operator*: while (++k < w and carry > 0)
RECURSIVE MulChain(_, _, _)
MulChain(res, k, carry) ==
    LET k1 == k + 1
    IN  IF k1 < W /\ carry > 0
        THEN LET ac == addCarry(res[k1], 0, carry)
             IN  MulChain([res EXCEPT ![k1] = ac.out], k1, ac.carry)
        ELSE res

\* operator* that carries only the overflow of the low half, not p_upper
MulStep_NoUpper(res, a, b, k) ==
    LET p  == multiplyParts(a, b)
        ac == addCarry(res[k], p.out_lower, 0)
    IN  MulChain([res EXCEPT ![k] = ac.out], k, ac.carry)

\* operator*: one partial product added at word index k
MulStep(res, a, b, k) ==
    LET p     == multiplyParts(a, b)
        ac    == addCarry(res[k], p.out_lower, 0)
        carry == (p.out_upper + ac.carry) % WordMod
    IN  MulChain([res EXCEPT ![k] = ac.out], k, carry)

\* operator*: the two nested loops with their three continue statements
RECURSIVE MulLoop(_, _, _, _, _)
MulLoop(x, y, i, j, res) ==
    IF i >= W THEN res
    ELSE IF x[i] = 0 \/ j >= W THEN MulLoop(x, y, i + 1, 0, res)
    ELSE IF y[j] = 0 \/ i + j >= W THEN MulLoop(x, y, i, j + 1, res)
    ELSE MulLoop(x, y, i, j + 1, MulStep(res, x[i], y[j], i + j))

BigMul(a, b) == MulLoop(a, b, 0, 0, BigZero)

\* operator*: the arguments of the calls of addCarry in
\* while (++k < w and carry > 0), in order
RECURSIVE ChainCalls(_, _, _)
ChainCalls(res, k, carry) ==
    LET k1 == k + 1
    IN  IF k1 < W /\ carry > 0
        THEN <<[a |-> res[k1], b |-> 0, c |-> carry, upper |-> 0]>>
                 \o ChainCalls(res, k1, addCarry(res[k1], 0, carry).carry)
        ELSE <<>>

\* operator*: the calls of addCarry for one partial product; the first one
\* returns the carry that is added to p_upper
StepCalls(res, a, b, k) ==
    LET p     == multiplyParts(a, b)
        ac    == addCarry(res[k], p.out_lower, 0)
        carry == (p.out_upper + ac.carry) % WordMod
    IN  <<[a |-> res[k], b |-> p.out_lower, c |-> 0, upper |-> p.out_upper]>>
            \o ChainCalls(res, k, carry)

\* operator*: the calls of addCarry of the whole product, in order
RECURSIVE MulCalls(_, _, _, _, _)
MulCalls(x, y, i, j, res) ==
    IF i >= W THEN <<>>
    ELSE IF x[i] = 0 \/ j >= W THEN MulCalls(x, y, i + 1, 0, res)
    ELSE IF y[j] = 0 \/ i + j >= W THEN MulCalls(x, y, i, j + 1, res)
    ELSE StepCalls(res, x[i], y[j], i + j)
             \o MulCalls(x, y, i, j + 1, MulStep(res, x[i], y[j], i + j))

\* operator/: the long division loop, from bit at down to bit 0; returns the
\* quotient (res) and the running remainder (dividend)
RECURSIVE DivLoop(_, _, _, _, _)

\* operator/: the end of the loop body, if (at > 0) append next digit,
\* else break
DivAppend(x, y, at, res, dividend) ==
    IF at > 0
    THEN DivLoop(x, y, at - 1, res,
                 BigOr(BigShl(dividend, 1), BigFromWord(_getBit(x, at - 1))))
    ELSE [res |-> res, dividend |-> dividend]

DivLoop(x, y, at, res, dividend) ==
    IF BigLe(y, dividend)
    THEN DivAppend(x, y, at, _setBit(res, at, 1), BigSub(dividend, y))
    ELSE DivAppend(x, y, at, _setBit(res, at, 0), dividend)

\* operator/: the value of dividend at the end of the body of each
\* iteration of the loop, before the next digit is appended, from bit at
\* down to bit 0
RECURSIVE DivTrace(_, _, _, _)

\* operator/: the dividend left by this iteration, then those of the
\* iterations after it
TraceAppend(x, y, at, dividend) ==
    IF at > 0
    THEN <<dividend>> \o DivTrace(x, y, at - 1,
             BigOr(BigShl(dividend, 1), BigFromWord(_getBit(x, at - 1))))
    ELSE <<dividend>>

DivTrace(x, y, at, dividend) ==
    IF BigLe(y, dividend)
    THEN TraceAppend(x, y, at, BigSub(dividend, y))
    ELSE TraceAppend(x, y, at, dividend)

BigDivTrace(a, b) ==
    DivTrace(a, b, W * WORD_SIZE - 1,
             BigFromWord(_getBit(a, W * WORD_SIZE - 1)))

\* operator/ that tests only the lowest word of the divisor
BigDivThrows_LowWord(a, b) == b[0] = 0

\* operator/: throws std::runtime_error when other is zero
BigDivThrows(a, b) == _isZero(b)

\* operator/ that starts from an empty dividend instead of the top bit
BigDivRem_NoTopBit(a, b) ==
    DivLoop(a, b, W * WORD_SIZE - 1, BigZero, BigZero)

BigDivRem(a, b) ==
    DivLoop(a, b, W * WORD_SIZE - 1, BigZero,
            BigFromWord(_getBit(a, W * WORD_SIZE - 1)))

BigDiv(a, b) == BigDivRem(a, b).res

\* operator[]: throws std::out_of_range when at >= w
BigIndexThrows(a, at) == at >= W

BigIndex(a, at) == a[at]

(***************************************************************************)
(* biguint: the specification.  Init draws the operands, each action       *)
(* applies one operator to them and records what it returned or threw.     *)
(***************************************************************************)
NoValue == <<>>

ShiftCounts == 0..(W * WORD_SIZE + ShiftExtra)

IndexValues == 0..(W + 1)

\* third operands of a chained product: 0, 1, the largest word, the largest
\* value, and the top bit alone
BigThird ==
    { BigZero, BigFromWord(1), BigFromWord(WordMax),
      [i \in 0..(W - 1) |-> WordMax],
      [i \in 0..(W - 1) |-> IF i = W - 1 THEN Pow2(WORD_SIZE - 1) ELSE 0] }

BigInit ==
    /\ big_a \in BigValues
    /\ big_b \in BigValues
    /\ big_n = 0
    /\ big_c = BigZero
    /\ big_op = "init"
    /\ big_res = NoValue
    /\ big_res2 = NoValue
    /\ big_err = "none"
    /\ df_lhs = NoValue
    /\ df_rhs = NoValue
    /\ df_op = "idle"
    /\ df_res = NoValue
    /\ df_finite = TRUE
    /\ df_status = "idle"
    /\ df_cnt = 0
    /\ df_cmp = NoValue
    /\ pr = NoValue
    /\ int_a = 0
    /\ int_b = 0
    /\ ps = NoValue

\* the common shape of an operator call that returns a biguint
BigReturn(op, value) ==
    /\ big_op = "init"
    /\ big_op' = op
    /\ big_res' = value
    /\ big_err' = "none"
    /\ UNCHANGED <<big_a, big_b>>

BigDoAdd ==
    /\ UNCHANGED <<dfvars, psvars>>
    /\ BigReturn("add", BigAdd(big_a, big_b))
    /\ UNCHANGED <<big_n, big_c, big_res2>>

BigDoSub ==
    /\ UNCHANGED <<dfvars, psvars>>
    /\ BigReturn("sub", BigSub(big_a, big_b))
    /\ UNCHANGED <<big_n, big_c, big_res2>>

\* a - (a - b) and (a + b) - b
BigDoSubSub ==
    /\ UNCHANGED <<dfvars, psvars>>
    /\ BigReturn("subsub", BigSub(big_a, BigSub(big_a, big_b)))
    /\ big_res2' = BigSub(BigAdd(big_a, big_b), big_b)
    /\ UNCHANGED <<big_n, big_c>>

BigDoMul ==
    /\ UNCHANGED <<dfvars, psvars>>
    /\ BigReturn("mul", BigMul(big_a, big_b))
    /\ big_res2' = BigMul(big_b, big_a)
    /\ UNCHANGED <<big_n, big_c>>

\* (a * b) * c and a * (b * c)
BigDoMul3 ==
    \E c \in BigThird :
        /\ UNCHANGED <<dfvars, psvars>>
        /\ BigReturn("mul3", BigMul(BigMul(big_a, big_b), c))
        /\ big_res2' = BigMul(big_a, BigMul(big_b, c))
        /\ big_c' = c
        /\ UNCHANGED big_n

BigDoDiv ==
    /\ UNCHANGED <<dfvars, psvars>>
    /\ big_op = "init"
    /\ big_op' = "div"
    /\ IF BigDivThrows(big_a, big_b)
       THEN /\ big_err' = "runtime_error"
            /\ big_res' = NoValue
       ELSE /\ big_err' = "none"
            /\ big_res' = BigDiv(big_a, big_b)
    /\ UNCHANGED <<big_a, big_b, big_n, big_c, big_res2>>

BigDoShl ==
    \E n \in ShiftCounts :
        /\ UNCHANGED <<dfvars, psvars>>
        /\ BigReturn("shl", BigShl(big_a, n))
        /\ big_n' = n
        /\ UNCHANGED <<big_c, big_res2>>

BigDoShr ==
    \E n \in ShiftCounts :
        \E outcome \in BigShr(big_a, n) :
            /\ UNCHANGED <<dfvars, psvars>>
            /\ BigReturn("shr", outcome)
            /\ big_n' = n
            /\ UNCHANGED <<big_c, big_res2>>

\* operator[] returns a word, recorded as the one-element tuple big_res2
BigDoIndex ==
    \E at \in IndexValues :
        /\ UNCHANGED <<dfvars, psvars>>
        /\ big_op = "init"
        /\ big_op' = "index"
        /\ big_n' = at
        /\ IF BigIndexThrows(big_a, at)
           THEN /\ big_err' = "out_of_range"
                /\ big_res2' = NoValue
           ELSE /\ big_err' = "none"
                /\ big_res2' = <<BigIndex(big_a, at)>>
        /\ UNCHANGED <<big_a, big_b, big_c, big_res>>

\* the six relational operators applied to the two operands
BigDoCompare ==
    /\ UNCHANGED <<dfvars, psvars>>
    /\ BigReturn("cmp", [eq |-> BigEq(big_a, big_b), ne |-> BigNe(big_a, big_b),
                         lt |-> BigLt(big_a, big_b), gt |-> BigGt(big_a, big_b),
                         le |-> BigLe(big_a, big_b), ge |-> BigGe(big_a, big_b)])
    /\ UNCHANGED <<big_n, big_c, big_res2>>

BigNext ==
    \/ BigDoCompare
    \/ BigDoAdd
    \/ BigDoSub
    \/ BigDoSubSub
    \/ BigDoMul
    \/ BigDoMul3
    \/ BigDoDiv
    \/ BigDoShl
    \/ BigDoShr
    \/ BigDoIndex

SpecBig == BigInit /\ [][BigNext]_vars

\* the number a biguint denotes: sum of words[i] * 2^(WORD_SIZE * i)
RECURSIVE ValFrom(_, _)
ValFrom(a, i) ==
    IF i >= W THEN 0 ELSE a[i] + WordMod * ValFrom(a, i + 1)

Val(a) == ValFrom(a, 0)

\* 2^(WORD_SIZE * W)
BigMod == Pow2(WORD_SIZE * W)

(***************************************************************************)
(* Claims on biguint                                                       *)
(***************************************************************************)
\* C3: a / b throws the divide-by-zero error exactly when b is the zero
\* value, reading word i throws the out-of-range error exactly when i >= W,
\* a call that throws returns no value, and no other operation throws.
C3_ErrorsExactly ==
    /\ (big_err = "runtime_error") <=> (big_op = "div" /\ Val(big_b) = 0)
    /\ (big_err = "out_of_range") <=> (big_op = "index" /\ big_n >= W)
    /\ big_err \in {"none", "runtime_error", "out_of_range"}
    /\ (big_err # "none") => (big_res = NoValue /\ big_res2 = NoValue)
    /\ (big_op = "div" /\ big_err = "none") => big_res \in BigValues
    /\ (big_op = "index" /\ big_err = "none") => big_res2 = <<big_a[big_n]>>

C3_Witness ==
    /\ big_op = "div"
    /\ big_err = "runtime_error"
    /\ Val(big_a) # 0
    /\ big_res = NoValue

\* C5: a + b returns (a + b) mod 2^(WORD_SIZE * W) and never fails.
C5_AddModular ==
    (big_op = "add") =>
        /\ big_err = "none"
        /\ big_res \in BigValues
        /\ Val(big_res) = (Val(big_a) + Val(big_b)) % BigMod

\* a carry out of word 0 and a carry out of the top word, which is dropped
C5_Witness ==
    /\ big_op = "add"
    /\ big_a[0] + big_b[0] >= WordMod
    /\ Val(big_a) + Val(big_b) >= BigMod
    /\ Val(big_res) = Val(big_a) + Val(big_b) - BigMod

\* C6: a - b equals (a - b) mod 2^(WORD_SIZE * W), so a - (a - b) = b and
\* (a + b) - b = a for every pair.
C6_SubModular ==
    /\ (big_op = "sub") =>
           Val(big_res) = (Val(big_a) - Val(big_b) + BigMod) % BigMod
    /\ (big_op = "subsub") => (big_res = big_b /\ big_res2 = big_a)

\* b > a, and a + b overflows
C6_Witness ==
    /\ big_op = "subsub"
    /\ Val(big_b) > Val(big_a)
    /\ Val(big_a) + Val(big_b) >= BigMod
    /\ big_res = big_b
    /\ big_res2 = big_a

\* C7: a * b returns (a * b) mod 2^(WORD_SIZE * W); the product is the same
\* for b * a and for either grouping of three operands.
C7_MulModular ==
    /\ (big_op = "mul") =>
           /\ Val(big_res) = (Val(big_a) * Val(big_b)) % BigMod
           /\ big_res2 = big_res
    /\ (big_op = "mul3") => big_res = big_res2

\* both operands use their top word and the product exceeds the width
C7_Witness ==
    /\ big_op = "mul"
    /\ big_a[W - 1] # 0
    /\ big_b[W - 1] # 0
    /\ big_a[0] * big_b[0] >= WordMod
    /\ Val(big_a) * Val(big_b) >= BigMod
    /\ Val(big_res) # 0

\* C8: for non-zero b, a / b returns the q with q*b <= a < (q+1)*b.
C8_DivFloor ==
    (big_op = "div" /\ big_err = "none") =>
        /\ Val(big_res) * Val(big_b) <= Val(big_a)
        /\ Val(big_a) < (Val(big_res) + 1) * Val(big_b)

\* a divisor with its top bit set, a quotient above 1 is impossible then, so
\* also ask for a remainder
C8_Witness ==
    /\ big_op = "div"
    /\ big_err = "none"
    /\ Val(big_b) >= BigMod \div 2
    /\ Val(big_res) = 1
    /\ Val(big_a) > Val(big_b)

\* C9: v >> n equals floor(v / 2^n), and is zero when n >= WORD_SIZE * W.
C9_ShrLogical ==
    (big_op = "shr") =>
        /\ big_res # NoDefinition
        /\ Val(big_res) = Val(big_a) \div Pow2(big_n)

\* C10: v << n equals (v * 2^n) mod 2^(WORD_SIZE * W), and is zero when
\* n >= WORD_SIZE * W.
C10_ShlLogical ==
    (big_op = "shl") =>
        /\ Val(big_res) = (Val(big_a) * Pow2(big_n)) % BigMod
        /\ (big_n >= WORD_SIZE * W) => big_res = BigZero

\* a bit crosses from word 0 into word 1 in a shift that is not a multiple
\* of the word size
C10_Witness ==
    /\ big_op = "shl"
    /\ big_n % WORD_SIZE # 0
    /\ big_n > WORD_SIZE
    /\ big_a[0] >= Pow2(WORD_SIZE - 1)
    /\ big_res[W - 1] # 0

(***************************************************************************)
(* dfloat: constants and representation                                    *)
(***************************************************************************)
\* number of decimal digits after the leading one in the model's mantissa
\* (17 in the source)
MantDigits == 2

RECURSIVE Pow10(_)
Pow10(n) == IF n = 0 THEN 1 ELSE 10 * Pow10(n - 1)

(***************************************************************************)
(* Wide integers.  A value of mant_t (uint64_t) or mant2_t (__uint128_t)   *)
(* does not fit the integers of the model checker: it is kept as the       *)
(* sequence of its digits in base 10^4, least significant first, with no   *)
(* leading zero digit.  0 is <<>>, 100 is <<100>>, and 2^64 - 9 =          *)
(* 18446744073709551607 is <<1607, 955, 737, 6744, 1844>>.                 *)
(***************************************************************************)
Limb == Pow10(4)

\* the wide integer of an integer of the model checker, n >= 0
RECURSIVE Wide(_)
Wide(n) == IF n = 0 THEN <<>> ELSE <<n % Limb>> \o Wide(n \div Limb)

\* the wide integers below 10^8 and below 2 * 10^9: the sums, products and
\* quotients of these are taken in the integers of the model checker
IsShort(x) == Len(x) <= 2

Fits(x) == Len(x) <= 2 \/ (Len(x) = 3 /\ x[3] < 20)

\* the integer of a wide integer that fits
Narrow(x) ==
    IF Len(x) = 0 THEN 0
    ELSE IF Len(x) = 1 THEN x[1]
    ELSE IF Len(x) = 2 THEN x[1] + Limb * x[2]
    ELSE x[1] + Limb * (x[2] + Limb * x[3])

\* digit i of a wide integer, 0 outside its digits
LimbAt(x, i) == IF 1 <= i /\ i <= Len(x) THEN x[i] ELSE 0

\* the digits f[1], ..., f[n] of a function on 1..n, as a sequence
AsSeq(f) == f \o <<>>

\* a digit sequence without its leading zero digits
Trim(x) ==
    LET used == {i \in 1..Len(x) : x[i] # 0}
    IN  IF used = {} THEN <<>>
        ELSE SubSeq(x, 1, CHOOSE i \in used : \A j \in used : j <= i)

\* -1, 0 or 1 as a < b, a = b or a > b: the highest digit that differs
WideCmp(a, b) ==
    IF Len(a) > Len(b) THEN 1
    ELSE IF Len(a) < Len(b) THEN -1
    ELSE LET diff == {i \in 1..Len(a) : a[i] # b[i]}
         IN  IF diff = {} THEN 0
             ELSE LET top == CHOOSE i \in diff : \A j \in diff : j <= i
                  IN  IF a[top] > b[top] THEN 1 ELSE -1

WideLt(a, b) == WideCmp(a, b) < 0

WideLe(a, b) == WideCmp(a, b) <= 0

\* the sum of the values, all >= 0, of a function
Sum(f) == BagCardinality([i \in {j \in DOMAIN f : f[j] > 0} |-> f[i]])

\* the carry into digit i of the digits s, each at most 2 * Limb - 2: a
\* digit below overflows and every digit between passes the carry on
CarryInto(s, i) ==
    \E j \in 1..(i - 1) :
        /\ s[j] >= Limb
        /\ \A k \in (j + 1)..(i - 1) : s[k] = Limb - 1

\* the wide integer of the digits s, each at most 2 * Limb - 2
Carried(s) ==
    IF s = <<>> THEN <<>>
    ELSE Trim(AsSeq([i \in 1..(Len(s) + 1) |->
                        (LimbAt(s, i) + IF CarryInto(s, i) THEN 1 ELSE 0)
                            % Limb]))

\* the columns c, each below 2^31, with every column split over the three
\* places it covers: the same number in smaller columns
Spread(c) ==
    IF c = <<>> THEN <<>>
    ELSE AsSeq([k \in 1..(Len(c) + 2) |->
                   (LimbAt(c, k) % Limb)
                       + ((LimbAt(c, k - 1) \div Limb) % Limb)
                       + (LimbAt(c, k - 2) \div (Limb * Limb))])

\* the wide integer of the columns c, each below 2^31
Normal(c) == Carried(Spread(Spread(c)))

\* a + b
WideAdd(a, b) ==
    IF IsShort(a) /\ IsShort(b) THEN Wide(Narrow(a) + Narrow(b))
    ELSE Carried(AsSeq([i \in 1..(IF Len(a) > Len(b) THEN Len(a) ELSE Len(b))
                           |-> LimbAt(a, i) + LimbAt(b, i)]))

\* the borrow from digit i of a - b: a digit below is short and every digit
\* between passes the borrow on
BorrowFrom(a, b, i) ==
    \E j \in 1..(i - 1) :
        /\ a[j] < LimbAt(b, j)
        /\ \A k \in (j + 1)..(i - 1) : a[k] = LimbAt(b, k)

\* a - b for a >= b
WideSub(a, b) ==
    IF Fits(a) THEN Wide(Narrow(a) - Narrow(b))
    ELSE Trim(AsSeq([i \in 1..Len(a) |->
                        (a[i] - LimbAt(b, i) + Limb
                             - IF BorrowFrom(a, b, i) THEN 1 ELSE 0) % Limb]))

\* a * m for an integer 0 <= m <= 200000
WideMulSmall(a, m) ==
    IF m = 0 THEN <<>>
    ELSE IF Len(a) <= 1 THEN Wide(Narrow(a) * m)
    ELSE Normal(AsSeq([i \in 1..Len(a) |-> a[i] * m]))

\* a * b for a and b below 2^128: column k is the sum of the products of
\* the digits whose places add up to k
WideMul(a, b) ==
    IF Len(a) = 0 \/ Len(b) = 0 THEN <<>>
    ELSE IF Len(a) <= 1 /\ Len(b) <= 1 THEN Wide(Narrow(a) * Narrow(b))
    ELSE Normal(AsSeq([k \in 1..(Len(a) + Len(b) - 1) |->
                          Sum([i \in 1..Len(a) |->
                                  a[i] * LimbAt(b, k + 1 - i)])]))

\* quotient digits and remainder of the digits lo..hi of a by an integer
\* 0 < d <= 200000, given the remainder of the digits above: the upper half
\* of the digits, then the lower half
RECURSIVE WideDivSmallRange(_, _, _, _, _)
WideDivSmallRange(a, d, lo, hi, rem) ==
    IF lo = hi
    THEN LET cur == rem * Limb + a[lo]
         IN  [quo |-> <<cur \div d>>, rem |-> cur % d]
    ELSE LET mid == (lo + hi) \div 2
             top == WideDivSmallRange(a, d, mid + 1, hi, rem)
             low == IF top.rem = 0
                    THEN WideDivSmallRange(a, d, lo, mid, 0)
                    ELSE WideDivSmallRange(a, d, lo, mid, top.rem)
         IN  [quo |-> low.quo \o top.quo, rem |-> low.rem]

\* a / d and a % d for an integer 0 < d <= 200000; when d divides Limb the
\* remainder of the digits above digit i is that of digit i + 1
WideDivSmall(a, d) ==
    IF Fits(a) THEN Wide(Narrow(a) \div d)
    ELSE IF Limb % d = 0
    THEN Trim(AsSeq([i \in 1..Len(a) |->
                        ((LimbAt(a, i + 1) % d) * Limb + a[i]) \div d]))
    ELSE Trim(WideDivSmallRange(a, d, 1, Len(a), 0).quo)

WideModSmall(a, d) ==
    IF Fits(a) THEN Narrow(a) % d
    ELSE IF Limb % d = 0 THEN a[1] % d
    ELSE WideDivSmallRange(a, d, 1, Len(a), 0).rem

\* the digit q of a quotient, q * b <= cur < (q + 1) * b, for cur < Limb * b
\* and a divisor b of two digits or more whose top digit is Limb / 2 or
\* more: q is at most the quotient of the top digits, and at most two less
QuoFits(cur, b, over) == WideLt(cur, over) /\ WideLe(WideSub(over, b), cur)

QuoDigitUpTo(cur, b, hi) ==
    CHOOSE q \in (IF hi >= 2 THEN hi - 2 ELSE 0)..hi :
        QuoFits(cur, b, WideMulSmall(b, q + 1))

QuoDigitNear(cur, b, est) ==
    QuoDigitUpTo(cur, b, IF est < Limb THEN est ELSE Limb - 1)

QuoDigit(cur, b) ==
    QuoDigitNear(cur, b,
                 (LimbAt(cur, Len(b) + 1) * Limb + LimbAt(cur, Len(b)))
                     \div b[Len(b)])

\* the quotient digit q of cur by b, with the remainder
WideDivDigitBy(cur, b, q) ==
    [quo |-> <<q>>, rem |-> WideSub(cur, WideMulSmall(b, q))]

WideDivDigit(cur, b) == WideDivDigitBy(cur, b, QuoDigit(cur, b))

\* quotient digits and remainder of the digits lo..hi of a by b, given the
\* remainder of the digits above: the upper half of the digits, then the
\* lower half with what the upper half left
RECURSIVE WideDivRange(_, _, _, _, _)
WideDivRange(a, b, lo, hi, rem) ==
    IF lo = hi THEN WideDivDigit(Trim(<<a[lo]>> \o rem), b)
    ELSE LET mid == (lo + hi) \div 2
             top == WideDivRange(a, b, mid + 1, hi, rem)
             low == IF top.rem = <<>>
                    THEN WideDivRange(a, b, lo, mid, <<>>)
                    ELSE WideDivRange(a, b, lo, mid, top.rem)
         IN  [quo |-> low.quo \o top.quo, rem |-> low.rem]

\* quotient and remainder of a by b, for a >= b and b of two digits or
\* more: both are first multiplied by the factor that brings the top digit
\* of b to Limb / 2 or more
WideDivModDown(res, factor) ==
    [quo |-> Trim(res.quo), rem |-> WideDivSmall(res.rem, factor)]

WideDivModUp(num, den, factor) ==
    WideDivModDown(WideDivRange(num, den, 1, Len(num), <<>>), factor)

WideDivModBy(a, b, factor) ==
    WideDivModUp(WideMulSmall(a, factor), WideMulSmall(b, factor), factor)

WideDivMod(a, b) == WideDivModBy(a, b, Limb \div (b[Len(b)] + 1))

\* a / b of unsigned integers, b # 0
WideDiv(a, b) ==
    IF Fits(a) /\ Fits(b) THEN Wide(Narrow(a) \div Narrow(b))
    ELSE IF WideLt(a, b) THEN <<>>
    ELSE IF Len(b) = 1 THEN WideDivSmall(a, b[1])
    ELSE WideDivMod(a, b).quo

\* a % b of unsigned integers, b # 0
WideMod(a, b) ==
    IF Fits(a) /\ Fits(b) THEN Wide(Narrow(a) % Narrow(b))
    ELSE IF WideLt(a, b) THEN a
    ELSE IF Len(b) = 1 THEN Wide(WideModSmall(a, b[1]))
    ELSE WideDivMod(a, b).rem

\* the powers 0 to 2^n of an integer b < Limb: entry k + 1 is the power k,
\* and the upper half of the table is the lower half times b^(2^(n - 1))
RECURSIVE PowerTable(_, _)
PowerTable(b, n) ==
    IF n = 0 THEN << <<1>>, <<b>> >>
    ELSE LET low == PowerTable(b, n - 1)
         IN  low \o AsSeq([k \in 1..(Len(low) - 1) |->
                              WideMul(low[k + 1], low[Len(low)])])

\* 2^k and 5^k for k up to 256
Pow2Table == PowerTable(2, 8)

Pow5Table == PowerTable(5, 8)

WidePow2(k) == Pow2Table[k + 1]

WidePow5(k) == Pow5Table[k + 1]

\* number of values of mant_t (uint64_t): 2^64
MantMod == WidePow2(64)

\* (mant_t)x: the low 64 bits of x
Low(x, mod) == IF WideLt(x, mod) THEN x ELSE WideMod(x, mod)

ToMant(x) == Low(x, MantMod)

\* a - b in mant_t: the difference modulo 2^64
MantSub(a, b) ==
    IF WideLe(b, a) THEN WideSub(a, b)
    ELSE WideSub(MantMod, WideSub(b, a))

SCALE_POW == MantDigits

SCALE == Pow10(SCALE_POW)

BASE == 10

MANT_CAP == BASE * SCALE

MAX_POW == 100

MIN_POW == -100

\* a member the code never assigned holds an indeterminate value: Indet
\* stands for it in pow, NoMant in mant.  No function of the code reads the
\* mant or the pow of a value whose sign is ZERO or _NAN_.
Indet == -999

NoMant == <<Indet>>

\* dfloat(Sign sign_, mant_t mant_, pow_t pow_); mant_ is a wide integer
DF(sign_, mant_, pow_) == [sign |-> sign_, mant |-> mant_, pow |-> pow_]

\* dfloat res; res.sign = sign_; return res;
SignOnly(sign_) == DF(sign_, NoMant, Indet)

\* outcomes of a call that does not return: a loop that never exits, and an
\* integer division by zero that ends the program
Hangs == SignOnly("HANG")

Traps == SignOnly("TRAP")

\* a call whose behaviour the language leaves undefined: a division of
\* mant2_t by zero
DivByZero == SignOnly("UNDEFINED")

\* SCALE, BASE and MANT_CAP as values of mant_t
WideScale == Wide(SCALE)

WideCap == Wide(MANT_CAP)

(***************************************************************************)
(* dfloat: constructors                                                    *)
(***************************************************************************)
\* while (mant < SCALE) { mant *= BASE; --pow; }
RECURSIVE CtorUp(_, _)
CtorUp(mant, pow) ==
    IF WideLt(mant, WideScale) THEN CtorUp(WideMulSmall(mant, BASE), pow - 1)
    ELSE [mant |-> mant, pow |-> pow]

\* while (mant >= MANT_CAP) { mant /= BASE; ++pow; }
RECURSIVE CtorDown(_, _)
CtorDown(mant, pow) ==
    IF WideLe(WideCap, mant) THEN CtorDown(WideDivSmall(mant, BASE), pow + 1)
    ELSE [mant |-> mant, pow |-> pow]

CtorDownAt(n) == CtorDown(n.mant, n.pow)

\* the object of the members sign, n.mant and n.pow
DFAt(sign, n) == DF(sign, n.mant, n.pow)

\* dfloat(T value) for signed integers
FromInt(value) ==
    IF value = 0 THEN SignOnly("ZERO")
    ELSE DFAt(IF value > 0 THEN "POS" ELSE "NEG",
              CtorDownAt(CtorUp(Wide(IF value > 0 THEN value ELSE -value),
                                SCALE_POW)))

(***************************************************************************)
(* dfloat(T value) for a floating-point T.  A value of T that is not zero  *)
(* is m * 2^e with T.digits bits in m and T.min_exp <= e <= T.max_exp, or  *)
(* with fewer bits in m and e = T.min_exp (subnormal); m is a wide         *)
(* integer.  Every operation rounds to the nearest value of T, ties to     *)
(* even.                                                                   *)
(***************************************************************************)
\* std::numeric_limits<T>::digits, and the exponents of the smallest and of
\* the largest value of T written as m * 2^e, for float, double and the
\* long double of x86-64
Binary32 == [digits |-> 24, min_exp |-> -149, max_exp |-> 104]

Binary64 == [digits |-> 53, min_exp |-> -1074, max_exp |-> 971]

Extended80 == [digits |-> 64, min_exp |-> -16445, max_exp |-> 16320]

FloatTypes == {Binary32, Binary64, Extended80}

\* a floating-point value, by its class ("finite", "inf" or "nan"), sign,
\* m and e
Float(cls_, neg_, m_, e_) == [cls |-> cls_, neg |-> neg_, m |-> m_, e |-> e_]

FloatZero(neg_) == Float("finite", neg_, <<>>, 0)

FloatInf(neg_) == Float("inf", neg_, <<>>, 0)

FloatNaN == Float("nan", FALSE, <<>>, 0)

\* number of bits of an integer n >= 0 of the model checker
BitsOf(n) == Cardinality({b \in 0..30 : Pow2(b) <= n})

\* number of bits of a wide integer: one of n digits has at least
\* 13 * (n - 1) bits and fewer than 14 * n
WideBits(x) ==
    IF Fits(x) THEN BitsOf(Narrow(x))
    ELSE LET low == 13 * (Len(x) - 1)
         IN  low + Cardinality({b \in low..(14 * Len(x)) :
                                    WideLe(WidePow2(b), x)})

\* x * 2^n
WideShl(x, n) == IF n = 0 THEN x ELSE WideMul(x, WidePow2(n))

\* x / 10^n: n \div 4 digits of 10^4 are dropped, and the rest divided
WideDropPlaces(x, n) ==
    IF n \div 4 >= Len(x) THEN <<>>
    ELSE WideDivSmall(SubSeq(x, (n \div 4) + 1, Len(x)), Pow10(n % 4))

\* x / 2^n, as x * 5^n / 10^n
WideShr(x, n) ==
    IF n = 0 \/ x = <<>> THEN x
    ELSE IF n >= WideBits(x) THEN <<>>
    ELSE WideDropPlaces(WideMul(x, WidePow5(n)), n)

\* the value m * 2^e of T, m of bits bits, or the infinity when it is
\* above the largest value of T
FloatFinite(T, neg, m, e, bits) ==
    IF m = <<>> THEN FloatZero(neg)
    ELSE IF bits + e > T.digits + T.max_exp THEN FloatInf(neg)
    ELSE Float("finite", neg, m, e)

\* m * 2^e for a rounded m: of T.digits bits at most, or 2^T.digits when the
\* rounding carried
FloatCarry(T, neg, m, e, bits) ==
    IF bits > T.digits
    THEN FloatFinite(T, neg, WidePow2(T.digits - 1), e + 1, T.digits)
    ELSE FloatFinite(T, neg, m, e, bits)

FloatRounded(T, neg, m, e) == FloatCarry(T, neg, m, e, WideBits(m))

\* round to nearest, ties to even: cmp compares the bits dropped with half
\* of the last place kept
RoundsUp(cmp, sticky, odd) == cmp > 0 \/ (cmp = 0 /\ (sticky \/ odd))

\* n * 2^e with the low s > 0 bits of n dropped, q being the bits kept
FloatRoundOff(T, neg, n, sticky, e, s, q) ==
    FloatRounded(T, neg,
                 IF RoundsUp(WideCmp(WideSub(n, WideShl(q, s)),
                                     WidePow2(s - 1)),
                             sticky, WideModSmall(q, 2) = 1)
                 THEN WideAdd(q, <<1>>) ELSE q,
                 e + s)

\* s is the number of low bits of n that do not fit
FloatRoundAt(T, neg, n, sticky, e, bits, s) ==
    IF s <= 0 THEN FloatFinite(T, neg, n, e, bits)
    ELSE FloatRoundOff(T, neg, n, sticky, e, s, WideShr(n, s))

\* the bits of n that do not fit are those above T.digits, and those that
\* lie below the place of 2^T.min_exp
FloatRoundBits(T, neg, n, sticky, e, bits) ==
    FloatRoundAt(T, neg, n, sticky, e, bits,
                 IF bits - T.digits > T.min_exp - e
                 THEN bits - T.digits ELSE T.min_exp - e)

\* the value of T nearest to (n + f) * 2^e, where n is a wide integer and
\* 0 <= f < 1 with f # 0 exactly when sticky; sticky only for n with at
\* least two bits more than T holds.  A value is m * 2^e with m of at most
\* T.digits bits and e >= T.min_exp; m need not have all T.digits bits
FloatRound(T, neg, n, sticky, e) ==
    IF n = <<>> THEN FloatZero(neg)
    ELSE FloatRoundBits(T, neg, n, sticky, e, WideBits(n))

\* the value of T an integer 0 <= k < 2^24 converts to: (T)SCALE, (T)BASE,
\* (T)1 are exact
FloatOf(T, k) == Float("finite", FALSE, Wide(k), 0)

\* v * w in T, for finite v and w
FloatMul(T, v, w) ==
    FloatRound(T, v.neg # w.neg, WideMul(v.m, w.m), FALSE, v.e + w.e)

\* v / k in T, for a finite v and an integer 0 < k <= 200000 that T holds
\* exactly, as it holds BASE: the quotient of the integers is taken with at
\* least two bits more than T holds
FloatDiv(T, v, k) ==
    IF v.m = <<>> THEN v
    ELSE LET t   == T.digits + 2 + BitsOf(k) - WideBits(v.m)
             num == WideShl(v.m, t)
         IN  FloatRound(T, v.neg, WideDivSmall(num, k),
                        WideModSmall(num, k) # 0, v.e - t)

\* v < w for finite v > 0 and w > 0
FloatLess(v, w) ==
    LET vtop == WideBits(v.m) + v.e
        wtop == WideBits(w.m) + w.e
    IN  IF vtop # wtop THEN vtop < wtop
        ELSE IF v.e >= w.e THEN WideLt(WideShl(v.m, v.e - w.e), w.m)
        ELSE WideLt(v.m, WideShl(w.m, w.e - v.e))

\* (mant_t)value for a finite value >= 0 below 2^64: the integer part
FloatToMant(v) ==
    IF v.e >= 0 THEN WideShl(v.m, v.e) ELSE WideShr(v.m, -v.e)

\* the locals of dfloat(T value) once the sign is set and value is made
\* positive; sign is the member, pc the loop the constructor is in
InitFloat(T, v) ==
    [T |-> T, value |-> [v EXCEPT !.neg = FALSE], pow |-> 0,
     sign |-> IF v.neg THEN "NEG" ELSE "POS", pc |-> "up", result |-> NoValue]

\* mant = (mant_t)(value * SCALE)
FloatMant(st) == FloatToMant(FloatMul(st.T, st.value, FloatOf(st.T, SCALE)))

\* if (mant == 0) sign = ZERO
ZeroIfNone(sign, mant, pow) ==
    IF mant = <<>> THEN DF("ZERO", <<>>, pow) ELSE DF(sign, mant, pow)

\* one test of while (value < 1), with the body it runs
FloatUp(st) ==
    IF ~FloatLess(st.value, FloatOf(st.T, 1)) THEN [st EXCEPT !.pc = "down"]
    ELSE IF st.pow <= MIN_POW
    THEN [st EXCEPT !.pc = "return",
                    !.result = ZeroIfNone(st.sign, FloatMant(st), st.pow)]
    ELSE [st EXCEPT !.value = FloatMul(st.T, st.value, FloatOf(st.T, BASE)),
                    !.pow = st.pow - 1]

\* one test of while (value >= BASE), with the body it runs, and the
\* statement after the loop
FloatDown(st) ==
    IF FloatLess(st.value, FloatOf(st.T, BASE))
    THEN [st EXCEPT !.pc = "return",
                    !.result = DF(st.sign, FloatMant(st), st.pow)]
    ELSE IF st.pow >= MAX_POW
    THEN [st EXCEPT !.pc = "return", !.result = DF("NAN", NoMant, st.pow)]
    ELSE [st EXCEPT !.value = FloatDiv(st.T, st.value, BASE),
                    !.pow = st.pow + 1]

FloatStep(st) == IF st.pc = "up" THEN FloatUp(st) ELSE FloatDown(st)

\* at most n loop tests, stopping at the one that returns; the run is split
\* in halves, the second starting where the first one stopped
RECURSIVE RunFloat(_, _)
RunFloat(st, n) ==
    IF n = 0 \/ st.pc = "return" THEN st
    ELSE IF n = 1 THEN FloatStep(st)
    ELSE RunFloat(RunFloat(st, n \div 2), n - (n \div 2))

\* dfloat(T value) for floating point: only one of the loops runs its body,
\* MAX_POW or -MIN_POW times at most, and three tests more end the loops
FromFloat(T, v) ==
    IF v.cls = "finite" /\ v.m = <<>> THEN SignOnly("ZERO")
    ELSE IF v.cls # "finite" THEN SignOnly("NAN")
    ELSE RunFloat(InitFloat(T, v),
                  (IF MAX_POW > -MIN_POW THEN MAX_POW ELSE -MIN_POW) + 3).result

\* dfloat(T value) for floating point, the branch !std::isfinite(value)
FromNonFinite == FromFloat(Binary64, FloatNaN)

(***************************************************************************)
(* dfloat: comparison of magnitudes                                        *)
(***************************************************************************)
\* _compareMagnitudeTo
_compareMagnitudeTo(a, b) ==
    IF a.pow > b.pow THEN "MORE"
    ELSE IF a.pow < b.pow THEN "LESS"
    ELSE IF WideLt(b.mant, a.mant) THEN "MORE"
    ELSE IF WideLt(a.mant, b.mant) THEN "LESS"
    ELSE "EQUAL"

\* dfloat::_comparedTo
dfloat_comparedTo(a, b) ==
    IF a.sign = "NAN" \/ b.sign = "NAN" THEN "NAN"
    ELSE IF a.sign = "NEG" /\ b.sign \in {"ZERO", "POS"} THEN "LESS"
    ELSE IF a.sign = "ZERO" /\ b.sign = "NEG" THEN "MORE"
    ELSE IF a.sign = "ZERO" /\ b.sign = "ZERO" THEN "EQUAL"
    ELSE IF a.sign = "ZERO" /\ b.sign = "POS" THEN "LESS"
    ELSE IF a.sign = "POS" /\ b.sign \in {"NEG", "ZERO"} THEN "MORE"
    ELSE IF a.sign = "POS" THEN _compareMagnitudeTo(a, b)
    ELSE LET r == _compareMagnitudeTo(a, b)
         IN  IF r = "MORE" THEN "LESS"
             ELSE IF r = "LESS" THEN "MORE"
             ELSE r

\* operator==
OpEq(a, b) == dfloat_comparedTo(a, b) = "EQUAL"

\* operator!= without its test for NaN
OpNe_NoNaNTest(a, b) == dfloat_comparedTo(a, b) # "EQUAL"

\* operator!=
OpNe(a, b) ==
    dfloat_comparedTo(a, b) # "EQUAL" /\ dfloat_comparedTo(a, b) # "NAN"

\* operator>
OpGt(a, b) == dfloat_comparedTo(a, b) = "MORE"

\* operator<
OpLt(a, b) == dfloat_comparedTo(a, b) = "LESS"

\* operator>=
OpGe(a, b) == dfloat_comparedTo(a, b) \in {"EQUAL", "MORE"}

\* operator<=
OpLe(a, b) == dfloat_comparedTo(a, b) \in {"EQUAL", "LESS"}

(***************************************************************************)
(* dfloat: arithmetic                                                      *)
(***************************************************************************)
\* isfinite
isfinite(d) == d.sign # "NAN"

\* operator-() const
Neg(a) ==
    CASE a.sign = "NEG"  -> DF("POS", a.mant, a.pow)
      [] a.sign = "ZERO" -> DF("ZERO", <<>>, 0)
      [] a.sign = "POS"  -> DF("NEG", a.mant, a.pow)
      [] OTHER           -> DF("NAN", <<>>, 0)

\* while (a_pow < b_pow) { ++a_pow; a_mant /= BASE; }: the mantissa left
\* when the exponent has reached target.  Once the mantissa is 0 the
\* remaining iterations only count the exponent up and leave it 0.
RECURSIVE AlignTo(_, _, _)
AlignTo(mant, pow, target) ==
    IF pow < target
    THEN IF mant = <<>> THEN <<>>
         ELSE AlignTo(WideDivSmall(mant, BASE), pow + 1, target)
    ELSE mant

\* if (res.mant >= MANT_CAP) { res.mant /= BASE; ... }
SumCapped(sign, mant, pow) ==
    IF WideLe(WideCap, mant)
    THEN IF pow >= MAX_POW
         THEN DF("NAN", WideDivSmall(mant, BASE), pow)
         ELSE DF(sign, WideDivSmall(mant, BASE), pow + 1)
    ELSE DF(sign, mant, pow)

\* operator+, same sign
AddSameSign(a, b) ==
    SumCapped(a.sign,
              ToMant(WideAdd(AlignTo(a.mant, a.pow, b.pow),
                             AlignTo(b.mant, b.pow, a.pow))),
              IF a.pow < b.pow THEN b.pow ELSE a.pow)

\* while (res.mant < SCALE) { if (res.pow <= MIN_POW) break; ... }
\* A mantissa of 0 stays 0 in every iteration, and the loop ends at MIN_POW.
RECURSIVE DiffNorm(_, _)
DiffNorm(mant, pow) ==
    IF WideLt(mant, WideScale) /\ ~(pow <= MIN_POW)
    THEN IF mant = <<>> THEN [mant |-> <<>>, pow |-> MIN_POW]
         ELSE DiffNorm(WideMulSmall(mant, BASE), pow - 1)
    ELSE [mant |-> mant, pow |-> pow]

\* operator+, different signs, from the scaling of the smaller magnitude
\* on: big holds the larger magnitude and gives the sign
Difference(big, small) ==
    DFAt(big.sign,
         DiffNorm(MantSub(big.mant, AlignTo(small.mant, small.pow, big.pow)),
                  big.pow))

\* operator+, different signs, without the return for equal magnitudes
AddDiffSign_NoEqualTest(a, b) ==
    IF _compareMagnitudeTo(a, b) = "MORE" THEN Difference(a, b)
    ELSE Difference(b, a)

\* operator+, different signs
AddDiffSign(a, b) ==
    IF _compareMagnitudeTo(a, b) = "EQUAL" THEN DF("ZERO", <<>>, 0)
    ELSE IF _compareMagnitudeTo(a, b) = "MORE" THEN Difference(a, b)
    ELSE Difference(b, a)

\* operator+
Add(a, b) ==
    IF a.sign = "NAN" \/ b.sign = "NAN" THEN DF("NAN", <<>>, 0)
    ELSE IF a.sign = "ZERO" THEN b
    ELSE IF b.sign = "ZERO" THEN a
    ELSE IF a.sign = b.sign THEN AddSameSign(a, b)
    ELSE AddDiffSign(a, b)

\* operator-: operator+(-other)
Sub(a, b) == Add(a, Neg(b))

\* while (new_mant < SCALE) { new_mant *= BASE; --new_pow; } for a
\* new_mant that is not zero
RECURSIVE ScaleUp(_, _)
ScaleUp(mant, pow) ==
    IF WideLt(mant, WideScale) THEN ScaleUp(WideMulSmall(mant, BASE), pow - 1)
    ELSE [mant |-> mant, pow |-> pow]

\* while (new_mant >= MANT_CAP) { new_mant /= BASE; ++new_pow; }
RECURSIVE ScaleDown(_, _)
ScaleDown(mant, pow) ==
    IF WideLe(WideCap, mant) THEN ScaleDown(WideDivSmall(mant, BASE), pow + 1)
    ELSE [mant |-> mant, pow |-> pow]

\* while (new_pow < MIN_POW) { new_mant /= 10; ++new_pow;
\*                             if (new_mant == 0) return ZERO; }
RECURSIVE Underflow(_, _)
Underflow(mant, pow) ==
    IF pow < MIN_POW
    THEN IF WideDivSmall(mant, 10) = <<>>
         THEN [zero |-> TRUE, mant |-> <<>>, pow |-> pow + 1]
         ELSE Underflow(WideDivSmall(mant, 10), pow + 1)
    ELSE [zero |-> FALSE, mant |-> mant, pow |-> pow]

\* operator* and operator/: from the overflow check to the return;
\* res.mant = (mant_t)new_mant keeps the low 64 bits of new_mant
Clamped(sign, u) ==
    IF u.zero THEN SignOnly("ZERO") ELSE DF(sign, ToMant(u.mant), u.pow)

Clamp(sign, new_mant, new_pow) ==
    IF new_pow > MAX_POW THEN SignOnly("NAN")
    ELSE Clamped(sign, Underflow(new_mant, new_pow))

\* if (new_mant >= MANT_CAP) { new_mant /= BASE; ++new_pow; }
StepDown(mant, pow) ==
    IF WideLe(WideCap, mant)
    THEN [mant |-> WideDivSmall(mant, BASE), pow |-> pow + 1]
    ELSE [mant |-> mant, pow |-> pow]

\* Clamp for new_mant and new_pow held in n
ClampAt(sign, n) == Clamp(sign, n.mant, n.pow)

\* if (new_mant < SCALE) { new_mant *= BASE; --new_pow; }
StepUp(n) ==
    IF WideLt(n.mant, WideScale)
    THEN [mant |-> WideMulSmall(n.mant, BASE), pow |-> n.pow - 1]
    ELSE n

\* operator*, from while (new_mant < SCALE) on: a new_mant of 0 stays 0
\* and the loop does not end
Scaled(sign, n) ==
    IF n.mant = <<>> THEN Hangs ELSE ClampAt(sign, ScaleUp(n.mant, n.pow))

\* a * b / c in mant2_t, which holds every product of two mant_t
MulDiv(a, b, c) == WideDivSmall(WideMul(a, b), c)

\* operator*, both operands POS or NEG
MulFinite(a, b) ==
    Scaled(IF a.sign = b.sign THEN "POS" ELSE "NEG",
           StepDown(MulDiv(a.mant, b.mant, SCALE), a.pow + b.pow))

\* operator* that tests for ZERO before it tests for NaN
Mul_ZeroFirst(a, b) ==
    IF a.sign = "ZERO" \/ b.sign = "ZERO" THEN DF("ZERO", <<>>, 0)
    ELSE IF a.sign = "NAN" \/ b.sign = "NAN" THEN DF("NAN", <<>>, 0)
    ELSE MulFinite(a, b)

\* operator*
Mul(a, b) ==
    IF a.sign = "NAN" \/ b.sign = "NAN" THEN DF("NAN", <<>>, 0)
    ELSE IF a.sign = "ZERO" \/ b.sign = "ZERO" THEN DF("ZERO", <<>>, 0)
    ELSE MulFinite(a, b)

\* operator/, both operands POS or NEG; new_mant = a * SCALE / b has no
\* defined value for b = 0
DivFinite(a, b) ==
    IF b.mant = <<>> THEN DivByZero
    ELSE ClampAt(IF a.sign = b.sign THEN "POS" ELSE "NEG",
                 StepUp(ScaleDown(WideDiv(WideMulSmall(a.mant, SCALE), b.mant),
                                  a.pow - b.pow)))

\* operator/ that tests the numerator for ZERO before the denominator
Div_NumeratorFirst(a, b) ==
    IF a.sign = "NAN" \/ b.sign = "NAN" THEN DF("NAN", <<>>, 0)
    ELSE IF a.sign = "ZERO" THEN DF("ZERO", <<>>, 0)
    ELSE IF b.sign = "ZERO" THEN DF("NAN", <<>>, 0)
    ELSE DivFinite(a, b)

\* operator/
Div(a, b) ==
    IF a.sign = "NAN" \/ b.sign = "NAN" THEN DF("NAN", <<>>, 0)
    ELSE IF b.sign = "ZERO" THEN DF("NAN", <<>>, 0)
    ELSE IF a.sign = "ZERO" THEN DF("ZERO", <<>>, 0)
    ELSE DivFinite(a, b)

\* the outcomes of this / other that a build produces.  A division by a
\* zero mantissa is undefined: the divide instruction traps, and where the
\* optimizer sees one object on both sides (t /= t) it folds
\* a * SCALE / a into SCALE without dividing.
Outcomes(raw, same_object) ==
    IF raw = DivByZero
    THEN {Traps} \cup (IF same_object THEN {DF("POS", WideScale, 0)} ELSE {})
    ELSE {raw}

DivOutcomes(a, b, same_object) == Outcomes(Div(a, b), same_object)

(***************************************************************************)
(* dfloat::parse: the goto state machine.  A string is a sequence of       *)
(* one-character strings; ps.it is the 1-based position of the iterator,   *)
(* Len(ps.str) + 1 standing for str.end().                                 *)
(***************************************************************************)
Digits19 == {"1", "2", "3", "4", "5", "6", "7", "8", "9"}

Digits09 == {"0"} \cup Digits19

\* (*it) - '0'
DigitVal(c) ==
    CASE c = "0" -> 0 [] c = "1" -> 1 [] c = "2" -> 2 [] c = "3" -> 3
      [] c = "4" -> 4 [] c = "5" -> 5 [] c = "6" -> 6 [] c = "7" -> 7
      [] c = "8" -> 8 [] c = "9" -> 9

\* integer division of C++, truncating toward zero
CDiv(a, b) ==
    LET abs_a == IF a >= 0 THEN a ELSE -a
        abs_b == IF b >= 0 THEN b ELSE -b
        quo   == abs_a \div abs_b
    IN  IF (a >= 0) = (b >= 0) THEN quo ELSE -quo

\* the locals of parse before the first statement
InitParser(str) ==
    [pc |-> "begin", str |-> str, it |-> 1,
     sign |-> "POS", mant |-> <<>>, pow |-> SCALE_POW,
     exp_sign |-> 1, exp_pow |-> 0, result |-> NoValue]

\* the switch statements, one per label
SwBegin(c) ==
    CASE c = "+" -> "sign"
      [] c = "-" -> "sign"
      [] c = "0" -> "leadz"
      [] c \in Digits19 -> "whole"
      [] OTHER -> "fail"

SwSign(c) ==
    CASE c = "0" -> "leadz"
      [] c \in Digits19 -> "whole"
      [] OTHER -> "fail"

SwLeadz(c) ==
    CASE c = "0" -> "leadz"
      [] c \in Digits19 -> "whole"
      [] c \in {"e", "E"} -> "ze1"
      [] c = "." -> "frac1"
      [] OTHER -> "fail"

SwZe1(c) ==
    CASE c \in {"+", "-"} -> "zes"
      [] c \in Digits09 -> "ze2"
      [] OTHER -> "fail"

SwZes(c) ==
    CASE c \in Digits09 -> "ze2"
      [] OTHER -> "fail"

SwZe2(c) ==
    CASE c \in Digits09 -> "ze2"
      [] OTHER -> "fail"

SwWhole(c) ==
    CASE c \in Digits09 -> "whole"
      [] c \in {"e", "E"} -> "e1"
      [] c = "." -> "frac1"
      [] OTHER -> "fail"

\* the switch of frac1 letting an exponent follow the point directly
SwFrac1_AcceptExp(c) ==
    CASE c \in Digits09 -> "frac2"
      [] c \in {"e", "E"} -> "e1"
      [] OTHER -> "fail"

SwFrac1(c) ==
    CASE c \in Digits09 -> "frac2"
      [] OTHER -> "fail"

SwFrac2(c) ==
    CASE c \in Digits09 -> "frac2"
      [] c \in {"e", "E"} -> "e1"
      [] OTHER -> "fail"

SwE1(c) ==
    CASE c \in {"+", "-"} -> "es"
      [] c \in Digits09 -> "e2"
      [] OTHER -> "fail"

SwEs(c) ==
    CASE c \in Digits09 -> "e2"
      [] OTHER -> "fail"

SwE2(c) ==
    CASE c \in Digits09 -> "e2"
      [] OTHER -> "fail"

\* the character ++it points at, "end" when it reaches str.end()
Peek(st) ==
    IF st.it + 1 > Len(st.str) THEN "end" ELSE st.str[st.it + 1]

\* if (++it == str.end()) goto atEnd; switch (*it) { ... goto next; }
Advance(st, atEnd, next) ==
    IF Peek(st) = "end"
    THEN [st EXCEPT !.it = st.it + 1, !.pc = atEnd]
    ELSE [st EXCEPT !.it = st.it + 1, !.pc = next]

\* while (mant < SCALE) { if (pow <= MIN_POW) goto fail; mant *= BASE; --pow; }
\* A mantissa of 0 stays 0 in every iteration, until pow is MIN_POW.
RECURSIVE ParseNorm(_, _)
ParseNorm(mant, pow) ==
    IF WideLt(mant, WideScale)
    THEN IF pow <= MIN_POW THEN [fail |-> TRUE, mant |-> mant, pow |-> pow]
         ELSE IF mant = <<>> THEN [fail |-> TRUE, mant |-> <<>>, pow |-> MIN_POW]
         ELSE ParseNorm(WideMulSmall(mant, BASE), pow - 1)
    ELSE [fail |-> FALSE, mant |-> mant, pow |-> pow]

\* mant = mant * BASE + ((*it) - '0');
PushDigit(mant, c) == WideAdd(WideMulSmall(mant, BASE), Wide(DigitVal(c)))

\* the code from the start of parse to its first goto
StepBegin(st) ==
    IF st.it > Len(st.str) THEN [st EXCEPT !.pc = "fail"]
    ELSE [st EXCEPT !.pc = SwBegin(st.str[st.it])]

\* dfloat_parse_sign
StepSign(st) ==
    Advance([st EXCEPT !.sign = IF st.str[st.it] = "+" THEN "POS" ELSE "NEG"],
            "fail", SwSign(Peek(st)))

\* dfloat_parse_leadz
StepLeadz(st) == Advance(st, "zero", SwLeadz(Peek(st)))

\* dfloat_parse_ze1
StepZe1(st) == Advance(st, "fail", SwZe1(Peek(st)))

\* dfloat_parse_zes
StepZes(st) == Advance(st, "fail", SwZes(Peek(st)))

\* dfloat_parse_ze2
StepZe2(st) == Advance(st, "zero", SwZe2(Peek(st)))

\* dfloat_parse_whole that drops a digit the mantissa has no room for
\* without counting it in the exponent
StepWhole_NoCount(st) ==
    IF WideLe(WideScale, st.mant)
    THEN IF st.pow >= MAX_POW THEN [st EXCEPT !.pc = "fail"]
         ELSE Advance(st, "done", SwWhole(Peek(st)))
    ELSE Advance([st EXCEPT !.mant = PushDigit(st.mant, st.str[st.it])],
                 "done", SwWhole(Peek(st)))

\* dfloat_parse_whole
StepWhole(st) ==
    IF WideLe(WideScale, st.mant)
    THEN IF st.pow >= MAX_POW THEN [st EXCEPT !.pc = "fail"]
         ELSE Advance([st EXCEPT !.pow = st.pow + 1], "done", SwWhole(Peek(st)))
    ELSE Advance([st EXCEPT !.mant = PushDigit(st.mant, st.str[st.it])],
                 "done", SwWhole(Peek(st)))

\* dfloat_parse_frac1
StepFrac1(st) == Advance(st, "fail", SwFrac1(Peek(st)))

\* dfloat_parse_frac2
StepFrac2(st) ==
    IF WideLe(WideScale, st.mant) THEN Advance(st, "done", SwFrac2(Peek(st)))
    ELSE IF st.pow <= MIN_POW THEN [st EXCEPT !.pc = "fail"]
    ELSE Advance([st EXCEPT !.pow = st.pow - 1,
                            !.mant = PushDigit(st.mant, st.str[st.it])],
                 "done", SwFrac2(Peek(st)))

\* dfloat_parse_e1 after its loop, which left mant and pow in n
E1Normed(st, n) ==
    IF n.fail THEN [st EXCEPT !.mant = n.mant, !.pow = n.pow, !.pc = "fail"]
    ELSE Advance([st EXCEPT !.mant = n.mant, !.pow = n.pow], "fail",
                 SwE1(Peek(st)))

\* dfloat_parse_e1
StepE1(st) == E1Normed(st, ParseNorm(st.mant, st.pow))

\* dfloat_parse_es
StepEs(st) ==
    Advance([st EXCEPT !.exp_sign = IF st.str[st.it] = "+" THEN 1 ELSE -1],
            "fail", SwEs(Peek(st)))

\* dfloat_parse_e2
StepE2(st) ==
    LET d == DigitVal(st.str[st.it])
        e == st.exp_pow * BASE
    IN  IF st.exp_sign > 0
        THEN IF st.exp_pow > CDiv(MAX_POW, BASE) THEN [st EXCEPT !.pc = "fail"]
             ELSE IF d > MAX_POW - e
                  THEN [st EXCEPT !.exp_pow = e, !.pc = "fail"]
                  ELSE Advance([st EXCEPT !.exp_pow = e + d], "done", SwE2(Peek(st)))
        ELSE IF st.exp_pow < CDiv(MIN_POW, BASE) THEN [st EXCEPT !.pc = "fail"]
             ELSE IF d < MIN_POW - e
                  THEN [st EXCEPT !.exp_pow = e, !.pc = "fail"]
                  ELSE Advance([st EXCEPT !.exp_pow = e - d], "done", SwE2(Peek(st)))

\* dfloat_parse_zero
StepZero(st) ==
    [st EXCEPT !.pc = "return", !.result = DF("ZERO", <<>>, 0)]

\* dfloat_parse_fail
StepFail(st) ==
    [st EXCEPT !.pc = "return", !.result = DF("NAN", <<>>, 0)]

\* dfloat_parse_done after its loop, which left mant and pow in n
DoneNormed(st, n) ==
    IF n.fail THEN [st EXCEPT !.mant = n.mant, !.pow = n.pow, !.pc = "fail"]
    ELSE IF n.pow + st.exp_pow > MAX_POW \/ n.pow + st.exp_pow < MIN_POW
    THEN [st EXCEPT !.mant = n.mant, !.pow = n.pow, !.pc = "fail"]
    ELSE [st EXCEPT !.mant = n.mant, !.pow = n.pow + st.exp_pow,
                    !.pc = "return",
                    !.result = DF(st.sign, n.mant, n.pow + st.exp_pow)]

\* dfloat_parse_done
StepDone(st) == DoneNormed(st, ParseNorm(st.mant, st.pow))

\* the block of code at label st.pc
ParseStep(st) ==
    CASE st.pc = "begin" -> StepBegin(st)
      [] st.pc = "sign"  -> StepSign(st)
      [] st.pc = "leadz" -> StepLeadz(st)
      [] st.pc = "ze1"   -> StepZe1(st)
      [] st.pc = "zes"   -> StepZes(st)
      [] st.pc = "ze2"   -> StepZe2(st)
      [] st.pc = "whole" -> StepWhole(st)
      [] st.pc = "frac1" -> StepFrac1(st)
      [] st.pc = "frac2" -> StepFrac2(st)
      [] st.pc = "e1"    -> StepE1(st)
      [] st.pc = "es"    -> StepEs(st)
      [] st.pc = "e2"    -> StepE2(st)
      [] st.pc = "zero"  -> StepZero(st)
      [] st.pc = "fail"  -> StepFail(st)
      [] st.pc = "done"  -> StepDone(st)

\* parse as a function: run at most n blocks, stopping at the one that
\* returns; the run is split in halves, the second starting where the first
\* one stopped
RECURSIVE RunBlocks(_, _)
RunBlocks(st, n) ==
    IF n = 0 \/ st.pc = "return" THEN st
    ELSE IF n = 1 THEN ParseStep(st)
    ELSE RunBlocks(RunBlocks(st, n \div 2), n - (n \div 2))

\* parse as a function: run the blocks until one returns, a stretch of
\* blocks at a time
RECURSIVE RunParser(_)
RunParser(st) ==
    IF st.pc = "return" THEN st
    ELSE RunParser(RunBlocks(st, Len(st.str) + 1))

parse(str) == RunParser(InitParser(str)).result

(***************************************************************************)
(* dfloat::parse: the specification.  Init draws the string, each action   *)
(* executes the block of one label.                                        *)
(***************************************************************************)
\* longest string given to parse
MaxStrLen == 4

\* the characters the strings are made of: both signs, a zero and a
\* non-zero digit, both exponent markers, the point, and a character
\* outside the grammar
Alphabet == {"+", "-", "0", "1", "e", "E", ".", "x"}

\* every string of at most MaxStrLen characters
ShortInputs == UNION {[1..n -> Alphabet] : n \in 0..MaxStrLen}

\* the character c written n times
Rep(c, n) == [i \in 1..n |-> c]

\* the digit string d, and d with a point after each of its digits but the
\* last
WithPoint(d) ==
    {d} \cup {SubSeq(d, 1, k) \o <<".">> \o SubSeq(d, k + 1, Len(d)) :
                  k \in 1..(Len(d) - 1)}

\* literals with one or two digits more than the mantissa holds, the point
\* at every place
DigitLiterals ==
    UNION { WithPoint(d) :
            d \in UNION { [1..n -> {"0", "1", "9"}] :
                          n \in (SCALE_POW + 2)..(SCALE_POW + 3) } }

\* the parts of the literals that carry an exponent
ExpWholes ==
    { <<"1">>, <<"1", "0", "0">>, <<"0", ".", "0", "0", "1">>,
      <<"1", "0", "0", "0", "0", "0">>, <<"-", "9", ".", "9", "9">> }

ExpSigns == { <<>>, <<"+">>, <<"-">> }

ExpDigits ==
    { <<"9">>, <<"9", "9">>, <<"1", "0", "0">>, <<"1", "0", "1">>,
      <<"1", "0", "5">>, <<"1", "0", "9">>, <<"1", "1", "0">>,
      <<"1", "1", "1">>, <<"2", "0", "0">>, <<"0", "1", "0", "0">>,
      <<"1", "0", "0", "0">> }

\* literals whose written exponent lies on either side of MAX_POW and of
\* MIN_POW
ExponentLiterals ==
    { w \o <<"e">> \o sg \o x :
          w \in ExpWholes, sg \in ExpSigns, x \in ExpDigits }

\* literals whose whole part has MAX_POW, MAX_POW + 1 and MAX_POW + 2
\* digits, alone, with a fraction and with a negative exponent
LongLiterals ==
    { <<"1">> \o Rep("0", n) \o t :
          n \in (MAX_POW - 1)..(MAX_POW + 1),
          t \in { <<>>, <<".", "9">>, <<"e", "-", "5">>,
                  <<"e", "-", "5", "0">> } }

ParseInputs ==
    ShortInputs \cup DigitLiterals \cup ExponentLiterals \cup LongLiterals

ParseInit ==
    /\ ps \in {InitParser(str) : str \in ParseInputs}
    /\ big_a = BigZero
    /\ big_b = BigZero
    /\ big_n = 0
    /\ big_c = BigZero
    /\ big_op = "idle"
    /\ big_res = NoValue
    /\ big_res2 = NoValue
    /\ big_err = "none"
    /\ df_lhs = NoValue
    /\ df_rhs = NoValue
    /\ df_op = "idle"
    /\ df_res = NoValue
    /\ df_finite = TRUE
    /\ df_status = "idle"
    /\ df_cnt = 0
    /\ df_cmp = NoValue
    /\ pr = NoValue
    /\ int_a = 0
    /\ int_b = 0

PsBegin ==
    /\ ps.pc = "begin"
    /\ ps' = StepBegin(ps)
    /\ UNCHANGED <<bigvars, dfvars>>

PsSign ==
    /\ ps.pc = "sign"
    /\ ps' = StepSign(ps)
    /\ UNCHANGED <<bigvars, dfvars>>

PsLeadz ==
    /\ ps.pc = "leadz"
    /\ ps' = StepLeadz(ps)
    /\ UNCHANGED <<bigvars, dfvars>>

PsZe1 ==
    /\ ps.pc = "ze1"
    /\ ps' = StepZe1(ps)
    /\ UNCHANGED <<bigvars, dfvars>>

PsZes ==
    /\ ps.pc = "zes"
    /\ ps' = StepZes(ps)
    /\ UNCHANGED <<bigvars, dfvars>>

PsZe2 ==
    /\ ps.pc = "ze2"
    /\ ps' = StepZe2(ps)
    /\ UNCHANGED <<bigvars, dfvars>>

PsWhole ==
    /\ ps.pc = "whole"
    /\ ps' = StepWhole(ps)
    /\ UNCHANGED <<bigvars, dfvars>>

PsFrac1 ==
    /\ ps.pc = "frac1"
    /\ ps' = StepFrac1(ps)
    /\ UNCHANGED <<bigvars, dfvars>>

PsFrac2 ==
    /\ ps.pc = "frac2"
    /\ ps' = StepFrac2(ps)
    /\ UNCHANGED <<bigvars, dfvars>>

PsE1 ==
    /\ ps.pc = "e1"
    /\ ps' = StepE1(ps)
    /\ UNCHANGED <<bigvars, dfvars>>

PsEs ==
    /\ ps.pc = "es"
    /\ ps' = StepEs(ps)
    /\ UNCHANGED <<bigvars, dfvars>>

PsE2 ==
    /\ ps.pc = "e2"
    /\ ps' = StepE2(ps)
    /\ UNCHANGED <<bigvars, dfvars>>

PsZero ==
    /\ ps.pc = "zero"
    /\ ps' = StepZero(ps)
    /\ UNCHANGED <<bigvars, dfvars>>

PsFail ==
    /\ ps.pc = "fail"
    /\ ps' = StepFail(ps)
    /\ UNCHANGED <<bigvars, dfvars>>

PsDone ==
    /\ ps.pc = "done"
    /\ ps' = StepDone(ps)
    /\ UNCHANGED <<bigvars, dfvars>>

ParseNext ==
    \/ PsBegin
    \/ PsSign
    \/ PsLeadz
    \/ PsZe1
    \/ PsZes
    \/ PsZe2
    \/ PsWhole
    \/ PsFrac1
    \/ PsFrac2
    \/ PsE1
    \/ PsEs
    \/ PsE2
    \/ PsZero
    \/ PsFail
    \/ PsDone

SpecParse == ParseInit /\ [][ParseNext]_vars

\* parse runs to completion: a block that can execute does execute
SpecParseFair == ParseInit /\ [][ParseNext]_vars /\ WF_vars(ParseNext)

(***************************************************************************)
(* The documented transition table of parse                                *)
(***************************************************************************)
CharClass(c) ==
    CASE c = "+" -> "+"
      [] c = "-" -> "-"
      [] c = "0" -> "0"
      [] c \in Digits19 -> "1-9"
      [] c \in {"e", "E"} -> "eE"
      [] c = "." -> "."
      [] OTHER -> "other"

TableRow(plus, minus, zero, nonzero, exp, point, end) ==
    [c \in {"+", "-", "0", "1-9", "eE", ".", "end", "other"} |->
        CASE c = "+" -> plus [] c = "-" -> minus [] c = "0" -> zero
          [] c = "1-9" -> nonzero [] c = "eE" -> exp [] c = "." -> point
          [] c = "end" -> end [] OTHER -> "fail"]

Table ==
    [begin |-> TableRow("sign", "sign", "leadz", "whole", "fail", "fail", "fail"),
     sign  |-> TableRow("fail", "fail", "leadz", "whole", "fail", "fail", "fail"),
     leadz |-> TableRow("fail", "fail", "leadz", "whole", "ze1", "frac1", "zero"),
     ze1   |-> TableRow("zes", "zes", "ze2", "ze2", "fail", "fail", "fail"),
     zes   |-> TableRow("fail", "fail", "ze2", "ze2", "fail", "fail", "fail"),
     ze2   |-> TableRow("fail", "fail", "ze2", "ze2", "fail", "fail", "zero"),
     whole |-> TableRow("fail", "fail", "whole", "whole", "e1", "frac1", "done"),
     frac1 |-> TableRow("fail", "fail", "frac2", "frac2", "fail", "fail", "fail"),
     frac2 |-> TableRow("fail", "fail", "frac2", "frac2", "e1", "fail", "done"),
     e1    |-> TableRow("es", "es", "e2", "e2", "fail", "fail", "fail"),
     es    |-> TableRow("fail", "fail", "e2", "e2", "fail", "fail", "fail"),
     e2    |-> TableRow("fail", "fail", "e2", "e2", "fail", "fail", "done")]

ScanStates == DOMAIN Table

\* the table's state after the characters lo..hi of str, read from the
\* state from; the run is split in halves, the second read from the state
\* the first one ends in
RECURSIVE TableRun(_, _, _, _)
TableRun(str, from, lo, hi) ==
    IF lo > hi \/ from = "fail" THEN from
    ELSE IF lo = hi THEN Table[from][CharClass(str[lo])]
    ELSE LET mid == (lo + hi) \div 2
         IN  TableRun(str, TableRun(str, from, lo, mid), mid + 1, hi)

\* the table's state after the first k characters of str
TableStateAfter(str, k) == TableRun(str, "begin", 1, k)

\* the table's verdict on the whole string: "fail", "zero" or "done"
TableOutcome(str) ==
    LET last == TableStateAfter(str, Len(str))
    IN  IF last = "fail" THEN "fail" ELSE Table[last]["end"]

\* C4: parse returns a value for every string and never raises an error.
\* While scanning it is in the state the documented table gives; it returns
\* NaN whenever the table rejects a character or the input ends in begin,
\* sign, ze1, zes, frac1, e1 or es; it returns ZERO when the input ends in
\* leadz or ze2; it returns a number only when the input ends in whole,
\* frac2 or e2.
C4_ParseSafe ==
    /\ ps.pc \in ScanStates \cup {"zero", "fail", "done", "return"}
    /\ (ps.pc \in ScanStates \ {"begin"}) =>
           (ps.it <= Len(ps.str) /\ ps.pc = TableStateAfter(ps.str, ps.it))
    /\ (ps.pc \in {"zero", "done"}) => ps.pc = TableOutcome(ps.str)
    /\ (ps.pc = "return") =>
           /\ ps.result.sign \in {"NAN", "ZERO", "POS", "NEG"}
           /\ (TableOutcome(ps.str) = "fail") => ps.result.sign = "NAN"
           /\ (TableOutcome(ps.str) = "zero") => ps.result.sign = "ZERO"
           /\ (ps.result.sign = "ZERO") => TableOutcome(ps.str) = "zero"
           /\ (ps.result.sign \in {"POS", "NEG"}) =>
                  TableOutcome(ps.str) = "done"

C4_ParseTotal == [](C4_ParseSafe) /\ <>(ps.pc = "return")

\* the input ended right after the sign of an exponent, and NaN came back
C4_Witness ==
    /\ ps.pc = "return"
    /\ Len(ps.str) = MaxStrLen
    /\ TableStateAfter(ps.str, Len(ps.str)) = "es"
    /\ ps.result.sign = "NAN"

(***************************************************************************)
(* dfloat arithmetic: the specification.  A running value is combined with *)
(* itself or with a value from a pool by one operator call per step.       *)
(***************************************************************************)
\* number of operator calls in one computation
MaxOps == 2

\* the literals 1e-100 and 1.01e-100, the two smallest neighbours a literal
\* can name
Tiny == parse(<<"1", "e", "-", "1", "0", "0">>)

TinyNext == parse(<<"1", ".", "0", "1", "e", "-", "1", "0", "0">>)

\* the values a computation starts from and draws its operands from:
\* dfloat(NAN), dfloat(0), dfloat(1), dfloat(-1), dfloat(3), the parsed
\* literals 0.03, 9.99e100, 1e-100, 1.01e-100, and two values computed from
\* them: the denormal 1.01e-100 - 1e-100 and its quotient by 1e-100
DfPool ==
    { FromNonFinite, FromInt(0), FromInt(1), FromInt(-1), FromInt(3),
      parse(<<"0", ".", "0", "3">>),
      parse(<<"9", ".", "9", "9", "e", "1", "0", "0">>),
      Tiny, TinyNext,
      Sub(TinyNext, Tiny),
      Div(Sub(TinyNext, Tiny), Tiny) }

DfInit ==
    /\ df_res \in DfPool
    /\ df_lhs = NoValue
    /\ df_rhs = NoValue
    /\ df_op = "init"
    /\ df_finite = isfinite(df_res)
    /\ df_status = "ok"
    /\ df_cnt = 0
    /\ df_cmp = NoValue
    /\ pr = NoValue
    /\ int_a = 0
    /\ int_b = 0
    /\ big_a = BigZero
    /\ big_b = BigZero
    /\ big_n = 0
    /\ big_c = BigZero
    /\ big_op = "idle"
    /\ big_res = NoValue
    /\ big_res2 = NoValue
    /\ big_err = "none"
    /\ ps = NoValue

\* the operand pairs of a binary operator: the running value on either
\* side of another object, and on both sides (o[3]: both operands are one
\* object)
DfOperands ==
    { IF left THEN <<df_res, other, FALSE>> ELSE <<other, df_res, FALSE>> :
          other \in DfPool, left \in BOOLEAN }
        \cup {<<df_res, df_res, TRUE>>}

\* one operator call: raw is what the operator computes from l and r
DfApply(op, l, r, raw) ==
    /\ df_status = "ok"
    /\ df_cnt < MaxOps
    /\ df_cnt' = df_cnt + 1
    /\ df_op' = op
    /\ df_lhs' = l
    /\ df_rhs' = r
    /\ IF raw.sign = "HANG"
       THEN df_status' = "hang" /\ UNCHANGED <<df_res, df_finite>>
       ELSE IF raw.sign = "TRAP"
       THEN df_status' = "trap" /\ UNCHANGED <<df_res, df_finite>>
       ELSE /\ df_status' = "ok"
            /\ df_res' = raw
            /\ df_finite' = isfinite(df_res')
    /\ UNCHANGED <<df_cmp, int_a, int_b, pr, bigvars, psvars>>

DfAdd == \E o \in DfOperands : DfApply("add", o[1], o[2], Add(o[1], o[2]))

DfSub == \E o \in DfOperands : DfApply("sub", o[1], o[2], Sub(o[1], o[2]))

DfMul == \E o \in DfOperands : DfApply("mul", o[1], o[2], Mul(o[1], o[2]))

DfDiv ==
    \E o \in DfOperands :
        \E raw \in DivOutcomes(o[1], o[2], o[3]) :
            DfApply("div", o[1], o[2], raw)

DfNeg == DfApply("neg", df_res, df_res, Neg(df_res))

\* the six relational operators applied to one pair of operands, counted
\* as one call; the running value is left as it is
DfCompare ==
    \E o \in DfOperands :
        /\ df_status = "ok"
        /\ df_cnt < MaxOps
        /\ df_cnt' = df_cnt + 1
        /\ df_op' = "cmp"
        /\ df_lhs' = o[1]
        /\ df_rhs' = o[2]
        /\ df_cmp' = [eq |-> OpEq(o[1], o[2]), ne |-> OpNe(o[1], o[2]),
                      lt |-> OpLt(o[1], o[2]), gt |-> OpGt(o[1], o[2]),
                      le |-> OpLe(o[1], o[2]), ge |-> OpGe(o[1], o[2])]
        /\ UNCHANGED <<df_res, df_finite, df_status, int_a, int_b, pr,
                       bigvars, psvars>>

\* operator=(const dfloat&): the running value becomes a copy of another
\* object
DfAssign ==
    \E other \in DfPool :
        /\ df_status = "ok"
        /\ df_cnt < MaxOps
        /\ df_cnt' = df_cnt + 1
        /\ df_op' = "assign"
        /\ df_lhs' = other
        /\ df_rhs' = other
        /\ df_res' = other
        /\ df_finite' = isfinite(other)
        /\ UNCHANGED <<df_status, df_cmp, int_a, int_b, pr, bigvars, psvars>>

DfNext ==
    \/ DfAdd
    \/ DfSub
    \/ DfMul
    \/ DfDiv
    \/ DfNeg
    \/ DfCompare
    \/ DfAssign

SpecDf == DfInit /\ [][DfNext]_vars

DfBinary == {"add", "sub", "mul", "div"}

\* C1: if either operand of + - * / is NaN the result is NaN, unary minus
\* of NaN is NaN, isfinite is false exactly for NaN, and once the running
\* value is NaN every later result computed from it is NaN.
C1_NaNOperand ==
    /\ (df_op \in DfBinary /\ (df_lhs.sign = "NAN" \/ df_rhs.sign = "NAN")) =>
           (df_status = "ok" /\ df_res.sign = "NAN")
    /\ (df_op = "neg" /\ df_lhs.sign = "NAN") =>
           (df_status = "ok" /\ df_res.sign = "NAN")
    /\ (df_finite = FALSE) <=> (df_res.sign = "NAN")

C1_NaNAbsorbing ==
    /\ [](C1_NaNOperand)
    /\ [][(df_res.sign = "NAN" /\ df_op' # "assign")
               => df_res'.sign = "NAN"]_vars

\* NaN * ZERO, after the NaN was produced by an earlier operator call
C1_Witness ==
    /\ df_cnt = 2
    /\ df_op = "mul"
    /\ df_lhs.sign = "NAN"
    /\ df_rhs.sign = "ZERO"
    /\ df_res.sign = "NAN"
    /\ df_finite = FALSE

\* C2: x / ZERO is NaN for every x, ZERO / ZERO included, ZERO / y is ZERO
\* for every finite non-zero y, and neither call fails.
C2_DivByZero ==
    /\ (df_op = "div" /\ df_rhs.sign = "ZERO") =>
           (df_status = "ok" /\ df_res.sign = "NAN" /\ ~df_finite)
    /\ (df_op = "div" /\ df_lhs.sign = "ZERO"
            /\ df_rhs.sign \in {"POS", "NEG"}) =>
           (df_status = "ok" /\ df_res.sign = "ZERO")

\* ZERO / ZERO, the left ZERO being the result of a subtraction
C2_Witness ==
    /\ df_cnt = 2
    /\ df_op = "div"
    /\ df_lhs.sign = "ZERO"
    /\ df_rhs.sign = "ZERO"
    /\ df_res.sign = "NAN"

(***************************************************************************)
(* Claims on the relational operators of dfloat                            *)
(***************************************************************************)
\* C11: if either operand of a comparison is NaN, all six relational
\* operators == != < > <= >= return false, NaN == NaN and NaN != NaN
\* included.
C11_NaNUnordered ==
    (df_op = "cmp" /\ (df_lhs.sign = "NAN" \/ df_rhs.sign = "NAN")) =>
        /\ ~df_cmp.eq
        /\ ~df_cmp.ne
        /\ ~df_cmp.lt
        /\ ~df_cmp.gt
        /\ ~df_cmp.le
        /\ ~df_cmp.ge

\* NaN compared with itself, the NaN being the result of the call before
C11_Witness ==
    /\ df_op = "cmp"
    /\ df_cnt = 2
    /\ df_lhs.sign = "NAN"
    /\ df_rhs = df_lhs
    /\ df_res = df_lhs
    /\ ~df_cmp.eq
    /\ ~df_cmp.ne

\* number of decimal digits of a wide integer that is not 0
RECURSIVE DigitsOf(_)
DigitsOf(n) == IF n < BASE THEN 1 ELSE 1 + DigitsOf(n \div BASE)

WideDigits(x) == 4 * (Len(x) - 1) + DigitsOf(x[Len(x)])

\* 10^n as a wide integer
RECURSIVE WidePow10(_)
WidePow10(n) == IF n = 0 THEN Wide(1) ELSE WideMulSmall(WidePow10(n - 1), BASE)

\* every value of mant_t is below DenotedCap = 10 * DenotedScale, the
\* power of ten with as many digits as the largest value of mant_t
DenotedPlaces == WideDigits(WideSub(MantMod, Wide(1))) - 1

DenotedScale == WidePow10(DenotedPlaces)

DenotedCap == WideMulSmall(DenotedScale, BASE)

\* mant * 10^pow with the leading digit of mant moved to the place of
\* DenotedScale; multiplying by BASE loses nothing
RECURSIVE LeadUp(_, _)
LeadUp(mant, pow) ==
    IF WideLt(mant, DenotedScale)
    THEN LeadUp(WideMulSmall(mant, BASE), pow - 1)
    ELSE [mant |-> mant, pow |-> pow]

\* the real number sign * (mant / SCALE) * 10^pow as sgn * m * 10^pow with
\* 1 <= m < 10 and m = mant / DenotedScale: two values denote the same
\* number exactly when these records are equal
Denoted(d) ==
    IF d.sign = "ZERO" \/ d.mant = <<>>
    THEN [sgn |-> 0, mant |-> <<>>, pow |-> 0]
    ELSE LET n == LeadUp(d.mant, d.pow + DenotedPlaces - SCALE_POW)
         IN  [sgn |-> IF d.sign = "POS" THEN 1 ELSE -1,
              mant |-> n.mant, pow |-> n.pow]

\* the order of the real numbers two values denote
RealOrder(a, b) ==
    LET x == Denoted(a)
        y == Denoted(b)
        mag == IF x.pow > y.pow THEN 1
               ELSE IF x.pow < y.pow THEN -1
               ELSE WideCmp(x.mant, y.mant)
        ord == IF x.sgn # y.sgn THEN (IF x.sgn > y.sgn THEN 1 ELSE -1)
               ELSE x.sgn * mag
    IN  IF ord > 0 THEN "MORE" ELSE IF ord < 0 THEN "LESS" ELSE "EQUAL"

\* C12: for two non-NaN values reached through integer construction, parse
\* and + - * /, a == b holds exactly when they denote the same real number,
\* a < b exactly when the number of a is the smaller one, a > b exactly when
\* it is the larger one, and exactly one of the three holds.
C12_OrderOfReals ==
    (df_op = "cmp" /\ df_lhs.sign # "NAN" /\ df_rhs.sign # "NAN") =>
        /\ df_cmp.eq <=> (RealOrder(df_lhs, df_rhs) = "EQUAL")
        /\ df_cmp.lt <=> (RealOrder(df_lhs, df_rhs) = "LESS")
        /\ df_cmp.gt <=> (RealOrder(df_lhs, df_rhs) = "MORE")
        /\ Cardinality({k \in {"eq", "lt", "gt"} : df_cmp[k]}) = 1

(***************************************************************************)
(* Claims on the limits of the exponent                                    *)
(***************************************************************************)
\* the operands of the last call both denote a number that is not zero
BothNonZero ==
    /\ df_lhs.sign \in {"POS", "NEG"}
    /\ df_rhs.sign \in {"POS", "NEG"}
    /\ Denoted(df_lhs).sgn # 0
    /\ Denoted(df_rhs).sgn # 0

\* the exponent of the exact sum of two numbers of the same sign, written
\* with one digit before the point
SumExponent(x, y) ==
    LET hi  == IF x.pow < y.pow THEN y.pow ELSE x.pow
        sum == WideAdd(AlignTo(x.mant, x.pow, hi), AlignTo(y.mant, y.pow, hi))
    IN  IF WideLe(DenotedCap, sum) THEN hi + 1 ELSE hi

\* the exponent of the exact product
ProductExponent(x, y) ==
    IF WideLe(WideMul(DenotedCap, DenotedScale), WideMul(x.mant, y.mant))
    THEN x.pow + y.pow + 1
    ELSE x.pow + y.pow

\* the exponent of the exact quotient
QuotientExponent(x, y) ==
    IF WideLt(x.mant, y.mant) THEN x.pow - y.pow - 1 ELSE x.pow - y.pow

\* the exponent of the exact result of op on the numbers a and b denote is
\* above MAX_POW
Overflows(op, a, b) ==
    LET x == Denoted(a)
        y == Denoted(b)
    IN  CASE op = "add" -> x.sgn = y.sgn /\ SumExponent(x, y) > MAX_POW
          [] op = "sub" -> x.sgn # y.sgn /\ SumExponent(x, y) > MAX_POW
          [] op = "mul" -> ProductExponent(x, y) > MAX_POW
          [] op = "div" -> QuotientExponent(x, y) > MAX_POW

\* C13: an operator call on two non-zero finite values that returns, returns
\* NaN exactly when the exponent of the exact result is above MAX_POW:
\* same-sign addition that carries out of pow = MAX_POW, multiplication and
\* division whose renormalized exponent is above MAX_POW; every other result
\* is finite.
C13_OverflowIsNaN ==
    (df_op \in DfBinary /\ df_status = "ok" /\ BothNonZero) =>
        ((df_res.sign = "NAN") <=> Overflows(df_op, df_lhs, df_rhs))

\* the last call subtracted the magnitudes of two non-zero operands that
\* have the same exponent
SubtractsAtOnePow ==
    /\ df_op \in {"add", "sub"}
    /\ BothNonZero
    /\ df_lhs.pow = df_rhs.pow
    /\ \/ df_op = "add" /\ df_lhs.sign # df_rhs.sign
       \/ df_op = "sub" /\ df_lhs.sign = df_rhs.sign

\* the exact difference of the two magnitudes in units of
\* 10^MIN_POW / SCALE, for operands whose exponent is at most SCALE_POW
\* above MIN_POW
ExactDifference ==
    LET d == IF WideLt(df_rhs.mant, df_lhs.mant)
             THEN WideSub(df_lhs.mant, df_rhs.mant)
             ELSE WideSub(df_rhs.mant, df_lhs.mant)
    IN  WideMulSmall(d, Pow10(df_lhs.pow - MIN_POW))

\* the sign of the exact result of the subtraction
DifferenceSign ==
    IF WideLt(df_rhs.mant, df_lhs.mant) THEN df_lhs.sign
    ELSE IF df_op = "add" THEN df_rhs.sign
    ELSE Neg(df_rhs).sign

\* the exponent of the exact product or quotient of the last call
ExactExponent ==
    IF df_op = "mul"
    THEN ProductExponent(Denoted(df_lhs), Denoted(df_rhs))
    ELSE QuotientExponent(Denoted(df_lhs), Denoted(df_rhs))

\* C14: a subtraction, multiplication or division whose exact result is too
\* small to be normalized at pow = MIN_POW returns: a denormal with
\* pow = MIN_POW and 0 < mant < SCALE that carries the digits of the result
\* down to the last place of MIN_POW, or ZERO, and ZERO only when no digit
\* of the result is left at or above that place.
C14_GradualUnderflow ==
    /\ (/\ SubtractsAtOnePow
        /\ df_lhs.pow - MIN_POW <= SCALE_POW
        /\ WideLt(ExactDifference, WideScale)) =>
           /\ df_status = "ok"
           /\ IF ExactDifference = <<>> THEN df_res.sign = "ZERO"
              ELSE df_res = DF(DifferenceSign, ExactDifference, MIN_POW)
    /\ (df_op \in {"mul", "div"} /\ BothNonZero /\ ExactExponent < MIN_POW) =>
           /\ df_status = "ok"
           /\ IF ExactExponent < MIN_POW - SCALE_POW THEN df_res.sign = "ZERO"
              ELSE /\ df_res.sign =
                          (IF df_lhs.sign = df_rhs.sign THEN "POS" ELSE "NEG")
                   /\ df_res.pow = MIN_POW
                   /\ df_res.mant # <<>>
                   /\ WideLt(df_res.mant, WideScale)
                   /\ Denoted(df_res).pow = ExactExponent

\* C16: for finite a and b, a - b returns and has sign ZERO exactly when
\* a == b, so x - x is ZERO for every finite x; a + b is ZERO whenever
\* a == -b, so x + (-x) is ZERO and the sum of two values of opposite sign
\* and equal magnitude is neither non-zero nor NaN.
C16_DifferenceOfEquals ==
    /\ (df_op = "sub" /\ df_lhs.sign # "NAN" /\ df_rhs.sign # "NAN") =>
           /\ df_status = "ok"
           /\ (df_res.sign = "ZERO") <=> OpEq(df_lhs, df_rhs)
           /\ (df_lhs = df_rhs) => df_res.sign = "ZERO"
    /\ (df_op = "add" /\ df_lhs.sign # "NAN" /\ df_rhs.sign # "NAN") =>
           /\ df_status = "ok"
           /\ OpEq(df_lhs, Neg(df_rhs)) => df_res.sign = "ZERO"
           /\ (df_lhs.sign # df_rhs.sign /\ df_res.sign = "ZERO") =>
                  OpEq(df_lhs, Neg(df_rhs))

\* -d + d for the denormal d = 1.01e-100 - 1e-100, -d being the result of
\* unary minus
C16_Witness ==
    /\ df_op = "add"
    /\ df_cnt = 2
    /\ df_lhs.sign = "NEG"
    /\ df_lhs.pow = MIN_POW
    /\ df_lhs.mant # <<>>
    /\ WideLt(df_lhs.mant, WideScale)
    /\ df_rhs = Neg(df_lhs)
    /\ df_res.sign = "ZERO"

(***************************************************************************)
(* dfloat arithmetic on integers: the specification.  Init draws two       *)
(* integers, each action builds dfloat(a) and dfloat(b), applies one       *)
(* operator and compares what it returned with dfloat of the integer       *)
(* result.                                                                 *)
(***************************************************************************)
\* the magnitudes of the integers: small ones, and the ones around the
\* number of digits the mantissa holds, MANT_CAP having one digit more
\* than the mantissa and a single significant one
IntMagnitudes ==
    {0, 1, 2, 3, 4, 7, 10, 12, 25, 50, 99, 250}
        \cup {SCALE, MANT_CAP \div 2 - 1, MANT_CAP \div 2, MANT_CAP - 1,
              MANT_CAP, MANT_CAP + 234}

IntValues == IntMagnitudes \cup {-m : m \in IntMagnitudes}

IntInit ==
    /\ int_a \in IntValues
    /\ int_b \in IntValues
    /\ df_lhs = NoValue
    /\ df_rhs = NoValue
    /\ df_op = "init"
    /\ df_res = NoValue
    /\ df_finite = TRUE
    /\ df_status = "ok"
    /\ df_cnt = 0
    /\ df_cmp = NoValue
    /\ pr = NoValue
    /\ big_a = BigZero
    /\ big_b = BigZero
    /\ big_n = 0
    /\ big_c = BigZero
    /\ big_op = "idle"
    /\ big_res = NoValue
    /\ big_res2 = NoValue
    /\ big_err = "none"
    /\ ps = NoValue

\* what the six relational operators return for l and r
Relations(l, r) ==
    [eq |-> OpEq(l, r), ne |-> OpNe(l, r), lt |-> OpLt(l, r),
     gt |-> OpGt(l, r), le |-> OpLe(l, r), ge |-> OpGe(l, r)]

\* dfloat(int_a) op dfloat(int_b), compared with dfloat(expected)
IntApply(op, l, r, raw, expected) ==
    /\ df_op = "init"
    /\ df_op' = op
    /\ df_lhs' = l
    /\ df_rhs' = r
    /\ df_cnt' = df_cnt + 1
    /\ IF raw.sign \in {"HANG", "TRAP"}
       THEN /\ df_status' = (IF raw.sign = "HANG" THEN "hang" ELSE "trap")
            /\ UNCHANGED <<df_res, df_finite, df_cmp>>
       ELSE /\ df_status' = "ok"
            /\ df_res' = raw
            /\ df_finite' = isfinite(raw)
            /\ df_cmp' = Relations(raw, FromInt(expected))
    /\ UNCHANGED <<int_a, int_b, pr, bigvars, psvars>>

IntAdd ==
    IntApply("add", FromInt(int_a), FromInt(int_b),
             Add(FromInt(int_a), FromInt(int_b)), int_a + int_b)

IntSub ==
    IntApply("sub", FromInt(int_a), FromInt(int_b),
             Sub(FromInt(int_a), FromInt(int_b)), int_a - int_b)

IntMul ==
    IntApply("mul", FromInt(int_a), FromInt(int_b),
             Mul(FromInt(int_a), FromInt(int_b)), int_a * int_b)

\* a / b of two integers is evaluated only for b != 0
IntDiv ==
    /\ int_b # 0
    /\ \E raw \in DivOutcomes(FromInt(int_a), FromInt(int_b), FALSE) :
           IntApply("div", FromInt(int_a), FromInt(int_b), raw,
                    CDiv(int_a, int_b))

IntNext ==
    \/ IntAdd
    \/ IntSub
    \/ IntMul
    \/ IntDiv

SpecInt == IntInit /\ [][IntNext]_vars

\* an integer n >= 0 without its trailing zero digits
RECURSIVE Significand(_)
Significand(n) ==
    IF n # 0 /\ n % BASE = 0 THEN Significand(n \div BASE) ELSE n

\* the integer has at most as many significant decimal digits as the
\* mantissa holds: SCALE_POW + 1, which is 18 for SCALE = 10^17.  Trailing
\* zeros are not significant: MANT_CAP has one significant digit
FitsPrecision(n) ==
    DigitsOf(Significand(IF n < 0 THEN -n ELSE n)) <= SCALE_POW + 1

\* the exact result of the last call on the integers int_a and int_b
IntResult ==
    CASE df_op = "add" -> int_a + int_b
      [] df_op = "sub" -> int_a - int_b
      [] df_op = "mul" -> int_a * int_b
      [] df_op = "div" -> CDiv(int_a, int_b)

\* C15: for integers a and b such that a, b and the exact result each
\* have at most SCALE_POW + 1 significant decimal digits, dfloat(a) +
\* dfloat(b), dfloat(a) - dfloat(b) and dfloat(a) * dfloat(b) return a value
\* that compares equal (operator==) to dfloat of the integer result, and so
\* does dfloat(a) / dfloat(b) when b is not zero and divides a.
C15_ExactOnIntegers ==
    (/\ df_op \in DfBinary
     /\ FitsPrecision(int_a)
     /\ FitsPrecision(int_b)
     /\ FitsPrecision(IntResult)
     /\ (df_op = "div") => (CDiv(int_a, int_b) * int_b = int_a)) =>
        /\ df_status = "ok"
        /\ df_cmp.eq

(***************************************************************************)
(* Claims on the value parse returns.  The value a literal names is read   *)
(* off its text: sign, digits, place of the point, written exponent.       *)
(***************************************************************************)
\* the place of the first character of str that is in set, Len(str) + 1 if
\* there is none
FirstIn(str, set) ==
    IF \E i \in 1..Len(str) : str[i] \in set
    THEN CHOOSE i \in 1..Len(str) :
             /\ str[i] \in set
             /\ \A j \in 1..(i - 1) : str[j] \notin set
    ELSE Len(str) + 1

IsDigit(c) == c \in Digits09

\* the literal without its sign
Unsigned(str) ==
    IF Len(str) > 0 /\ str[1] \in {"+", "-"} THEN Tail(str) ELSE str

\* the text before the exponent marker
MantissaText(str) ==
    SubSeq(Unsigned(str), 1, FirstIn(Unsigned(str), {"e", "E"}) - 1)

\* the text after the exponent marker
ExponentText(str) ==
    SubSeq(Unsigned(str), FirstIn(Unsigned(str), {"e", "E"}) + 1,
           Len(Unsigned(str)))

\* the digits of the whole part and of the fraction, in order
LiteralDigits(str) == SelectSeq(MantissaText(str), IsDigit)

\* the number of digits of the whole part
WholeLength(str) == FirstIn(MantissaText(str), {"."}) - 1

\* the place of the first significant digit among the digits
LeadPlace(str) == FirstIn(LiteralDigits(str), Digits19)

\* the exponent of the first significant digit, before the written
\* exponent is applied
LiteralExponent(str) == WholeLength(str) - LeadPlace(str)

\* the n digits of digits from place i on, as a number; places past the
\* last digit count as 0
RECURSIVE DigitsFrom(_, _, _)
DigitsFrom(digits, i, n) ==
    IF n = 0 THEN 0
    ELSE (IF i <= Len(digits) THEN DigitVal(digits[i]) ELSE 0) * Pow10(n - 1)
             + DigitsFrom(digits, i + 1, n - 1)

\* the first SCALE_POW + 1 significant digits: the literal truncated toward
\* zero to the digits the mantissa holds
TruncatedMantissa(str) ==
    DigitsFrom(LiteralDigits(str), LeadPlace(str), SCALE_POW + 1)

\* the number of significant digits the literal writes, trailing zeros
\* counted
SignificantDigits(str) == Len(LiteralDigits(str)) - LeadPlace(str) + 1

\* the decimal number a digit string writes, capped so that it stays an
\* integer of the model
RECURSIVE NumberCapped(_, _, _)
NumberCapped(digits, i, acc) ==
    IF i > Len(digits) THEN acc
    ELSE IF acc >= BASE * BASE * MAX_POW THEN acc
    ELSE NumberCapped(digits, i + 1, acc * BASE + DigitVal(digits[i]))

\* the magnitude of the written exponent, 0 when none is written
WrittenMagnitude(str) ==
    NumberCapped(SelectSeq(ExponentText(str), IsDigit), 1, 0)

\* the written exponent with its sign
WrittenExponent(str) ==
    IF Len(ExponentText(str)) > 0 /\ ExponentText(str)[1] = "-"
    THEN -WrittenMagnitude(str)
    ELSE WrittenMagnitude(str)

\* C17: a finite non-zero result of parse is the literal truncated toward
\* zero to the SCALE_POW + 1 significant digits the mantissa holds: its
\* mantissa is the first SCALE_POW + 1 significant digits, whatever digits
\* follow in the whole part or in the fraction, its exponent is the
\* exponent of the first significant digit plus the written exponent, and
\* its sign is the sign written.
C17_ParseTruncates ==
    (ps.pc = "return" /\ ps.result.sign \in {"POS", "NEG"}) =>
        /\ ps.result.mant = Wide(TruncatedMantissa(ps.str))
        /\ ps.result.pow = LiteralExponent(ps.str) + WrittenExponent(ps.str)
        /\ (ps.result.sign = "NEG") <=> (ps.str[1] = "-")

\* a literal of SCALE_POW + 3 digits, the point after the digit the
\* mantissa has no room for, with a 9 dropped on either side of the point
C17_Witness ==
    /\ ps.pc = "return"
    /\ ps.result.sign = "POS"
    /\ SignificantDigits(ps.str) = SCALE_POW + 3
    /\ WholeLength(ps.str) = SCALE_POW + 2
    /\ ps.str[SCALE_POW + 2] = "9"
    /\ ps.str[Len(ps.str)] = "9"
    /\ ps.result.pow = SCALE_POW + 1
    /\ ps.result.mant = Wide(TruncatedMantissa(ps.str))

\* the literal writes a digit other than 0 before the exponent
NonZeroLiteral(str) == LeadPlace(str) <= Len(LiteralDigits(str))

\* the exponent the whole part alone gives the first significant digit
WholeExponent(str) ==
    IF LeadPlace(str) <= WholeLength(str) THEN LiteralExponent(str) ELSE 0

\* C18: a non-zero literal whose written exponent has magnitude greater
\* than MAX_POW parses to NaN, for a positive and for a negative exponent
\* alike and whatever the digits before the exponent are, and so does a
\* literal whose whole part alone gives an exponent above MAX_POW,
\* whatever exponent follows.
C18_ExponentOutOfRange ==
    (/\ ps.pc = "return"
     /\ NonZeroLiteral(ps.str)
     /\ \/ WrittenMagnitude(ps.str) > MAX_POW
        \/ WholeExponent(ps.str) > MAX_POW)
        => ps.result.sign = "NAN"

\* what the code does keep: a positive written exponent above MAX_POW and a
\* whole part above MAX_POW give NaN
C18_PositiveSide ==
    (/\ ps.pc = "return"
     /\ NonZeroLiteral(ps.str)
     /\ \/ WrittenExponent(ps.str) > MAX_POW
        \/ WholeExponent(ps.str) > MAX_POW)
        => ps.result.sign = "NAN"

\* one digit or more, and nothing else
IsDigits(text) == text # <<>> /\ \A i \in 1..Len(text) : text[i] \in Digits09

\* the digits written after the point, and whether a point is written
FractionText(str) ==
    SubSeq(MantissaText(str), WholeLength(str) + 2, Len(MantissaText(str)))

HasPoint(str) == WholeLength(str) < Len(MantissaText(str))

\* whether an exponent marker is written, and the exponent without its sign
HasExponent(str) ==
    FirstIn(Unsigned(str), {"e", "E"}) <= Len(Unsigned(str))

ExponentDigits(str) ==
    IF ExponentText(str) # <<>> /\ ExponentText(str)[1] \in {"+", "-"}
    THEN Tail(ExponentText(str))
    ELSE ExponentText(str)

\* the grammar of parse: an optional sign, digits, optionally a point
\* followed by digits, optionally e or E followed by an optional sign and
\* digits
MatchesGrammar(str) ==
    /\ IsDigits(SubSeq(MantissaText(str), 1, WholeLength(str)))
    /\ HasPoint(str) => IsDigits(FractionText(str))
    /\ HasExponent(str) => IsDigits(ExponentDigits(str))

\* C26: every string that matches the grammar of parse and whose mantissa
\* digits are all zero parses to ZERO and never to NaN, with or without a
\* sign, a fractional part or an exponent.
C26_ZeroLiterals ==
    (/\ ps.pc = "return"
     /\ MatchesGrammar(ps.str)
     /\ ~NonZeroLiteral(ps.str))
        => ps.result.sign = "ZERO"

\* what the code does keep: a literal of zeros without a point is ZERO
C26_WithoutPoint ==
    (/\ ps.pc = "return"
     /\ MatchesGrammar(ps.str)
     /\ ~NonZeroLiteral(ps.str)
     /\ ~HasPoint(ps.str))
        => ps.result.sign = "ZERO"

\* the grammar is the one the documented table accepts, on the literals of
\* moderate length
GrammarIsTable ==
    (ps.pc = "return" /\ Len(ps.str) <= MaxStrLen + SCALE_POW + 6) =>
        (MatchesGrammar(ps.str) <=> TableOutcome(ps.str) # "fail")

(***************************************************************************)
(* dfloat::print_to and dfloat::to_string.  The stream is the sequence of  *)
(* characters written, one string of length 1 per character.               *)
(***************************************************************************)
\* the character of a code from 0 to 255: the characters parse tells
\* apart and the letters of "nan" and of the strings given to parse by
\* themselves, every other one named by its code
CharOf(code) ==
    CASE code \in 48..57 ->
             <<"0", "1", "2", "3", "4", "5", "6", "7", "8", "9">>[code - 47]
      [] code = 43  -> "+"
      [] code = 45  -> "-"
      [] code = 46  -> "."
      [] code = 69  -> "E"
      [] code = 97  -> "a"
      [] code = 101 -> "e"
      [] code = 110 -> "n"
      [] code = 120 -> "x"
      [] OTHER      -> "chr" \o ToString(code)

\* char digit = '0' + quo, quo an integer below BASE
DigitChar(quo) == CharOf(48 + quo)

\* char digit = '0' + quo, quo of type mant_t: the conversion to char keeps
\* the low 8 bits
WideDigitChar(quo) == CharOf((48 + WideModSmall(quo, 256)) % 256)

\* print_to, scientific notation: the loop over the mantissa; place is the
\* number of digits written so far
RECURSIVE SciDigits(_, _)
SciDigits(mant_it, place) ==
    IF mant_it = <<>> THEN <<>>
    ELSE <<WideDigitChar(WideDivSmall(mant_it, SCALE))>>
             \o (IF place = 0 THEN <<".">> ELSE <<>>)
             \o SciDigits(Wide(WideModSmall(mant_it, SCALE) * BASE), place + 1)

\* print_to, scientific notation: the value of place after the loop
RECURSIVE SciPlaces(_)
SciPlaces(mant_it) ==
    IF mant_it = <<>> THEN 0
    ELSE 1 + SciPlaces(Wide(WideModSmall(mant_it, SCALE) * BASE))

\* print_to, scientific notation: pow_buf, filled from its last place and
\* written without the places left at 0
RECURSIVE PowBuf(_)
PowBuf(pow_it) ==
    IF pow_it = 0 THEN <<>>
    ELSE PowBuf(pow_it \div BASE) \o <<DigitChar(pow_it % BASE)>>

\* print_to, scientific notation: the exponent
PowText(pow) ==
    IF pow = 0 THEN <<"0">>
    ELSE IF pow < 0 THEN <<"-">> \o PowBuf(-pow)
    ELSE PowBuf(pow)

\* print_to, scientific notation
Scientific(d) ==
    SciDigits(d.mant, 0)
        \o (IF SciPlaces(d.mant) = 1 THEN <<"0">> ELSE <<>>)
        \o <<"e">> \o PowText(d.pow)

\* print_to, decimal notation: the loop over the mantissa and the zeros
\* written after it
RECURSIVE DecDigits(_, _)
DecDigits(mant_it, pow_it) ==
    IF mant_it = <<>>
    THEN IF pow_it >= 0 THEN Rep("0", pow_it + 1) ELSE <<>>
    ELSE <<WideDigitChar(WideDivSmall(mant_it, SCALE))>>
             \o (IF pow_it = 0 /\ WideModSmall(mant_it, SCALE) # 0
                 THEN <<".">> ELSE <<>>)
             \o DecDigits(Wide(WideModSmall(mant_it, SCALE) * BASE),
                          pow_it - 1)

\* print_to, decimal notation, without the zeros between the point and the
\* first digit
Decimal_NoLeadZeros(d) ==
    IF d.pow < 0
    THEN <<"0", ".">> \o DecDigits(d.mant, -1)
    ELSE DecDigits(d.mant, d.pow)

\* print_to, decimal notation
Decimal(d) ==
    IF d.pow < 0
    THEN <<"0", ".">> \o Rep("0", -1 - d.pow) \o DecDigits(d.mant, -1)
    ELSE DecDigits(d.mant, d.pow)

\* print_to with the test for scientific notation made strict
print_to_StrictThresh(d, exp_thresh) ==
    IF d.sign = "NAN" THEN <<"n", "a", "n">>
    ELSE IF d.sign = "ZERO"
    THEN IF exp_thresh > 0 THEN <<"0">> ELSE <<"0", ".", "0", "e", "0">>
    ELSE (IF d.sign = "NEG" THEN <<"-">> ELSE <<>>)
             \o (IF d.pow > exp_thresh \/ d.pow < -exp_thresh
                 THEN Scientific(d)
                 ELSE Decimal(d))

\* dfloat::print_to on an empty stream
print_to(d, exp_thresh) ==
    IF d.sign = "NAN" THEN <<"n", "a", "n">>
    ELSE IF d.sign = "ZERO"
    THEN IF exp_thresh > 0 THEN <<"0">> ELSE <<"0", ".", "0", "e", "0">>
    ELSE (IF d.sign = "NEG" THEN <<"-">> ELSE <<>>)
             \o (IF d.pow >= exp_thresh \/ d.pow <= -exp_thresh
                 THEN Scientific(d)
                 ELSE Decimal(d))

\* dfloat::to_string
to_string(d, exp_thresh) == print_to(d, exp_thresh)

(***************************************************************************)
(* Printing: a value is printed with to_string under a threshold and the   *)
(* text is given back to parse, as the tests of to_from_strings do.        *)
(***************************************************************************)
\* the default of the parameter exp_thresh
DefaultThresh == 10

\* the thresholds a value is printed under
Thresholds == {-1, 0, 1, 2, DefaultThresh, MAX_POW, MAX_POW + 1}

\* computed values printed besides the parsed ones: the pool of the
\* computations, a difference whose mantissa wrapped around, a quotient
\* that does not end and a quotient of mantissa 0
\* floating-point values given to dfloat(T value), each with its type: 0.1
\* as a float, a double and a long double, -0.1, 123456.789 and its
\* negative, 1.5, 0.0, the values 1e100, 1e101, 1e-101 and 1e-103 of double
\* nearest to the bounds of the exponent, an infinity and a NaN
FloatInputs ==
    { <<Binary32, Float("finite", FALSE, <<1773, 1342>>, -27)>>,
      <<Binary64, Float("finite", FALSE, <<6397, 189, 8797, 3602>>, -55)>>,
      <<Extended80, Float("finite", FALSE, <<6397, 189, 8797, 3602>>, -55)>>,
      <<Binary64, Float("finite", TRUE, <<6397, 189, 8797, 3602>>, -55)>>,
      <<Binary64, Float("finite", FALSE, <<6761, 3958, 8859, 8483>>, -36)>>,
      <<Binary64, Float("finite", TRUE, <<6761, 3958, 8859, 8483>>, -36)>>,
      <<Binary64, Float("finite", FALSE, <<3>>, -1)>>,
      <<Binary64, FloatZero(FALSE)>>,
      <<Binary64, Float("finite", FALSE, <<8029, 8946, 5575, 5147>>, 280)>>,
      <<Binary64, Float("finite", FALSE, <<8759, 4670, 6117, 1608>>, 285)>>,
      <<Binary64, Float("finite", FALSE, <<3117, 9142, 3209, 6304>>, -388)>>,
      <<Binary64, Float("finite", FALSE, <<1589, 6902, 5308, 8069>>, -395)>>,
      <<Binary32, FloatInf(TRUE)>>,
      <<Binary64, FloatNaN>> }

\* the values printed that no string gave: those of the arithmetic, those
\* constructed from floating point, and three quotients
PrintPool ==
    DfPool \cup { FromFloat(in[1], in[2]) : in \in FloatInputs } \cup
    { Sub(Div(Sub(TinyNext, Tiny), Tiny), parse(<<"0", ".", "0", "3">>)),
      Div(Sub(parse(<<"1", ".", "0", "1">>), FromInt(1)), FromInt(3)),
      Div(Sub(TinyNext, Tiny), parse(<<"0", ".", "0", "3">>)) }

\* four spellings of eleven
Spellings ==
    { <<"1", ".", "1", "e", "1">>, <<"1", "1">>,
      <<"+", "0", "1", "1", ".", "0">>, <<"1", "1", "0", "e", "-", "1">> }

\* the strings whose parsed value is printed
PrintInputs == ParseInputs \cup Spellings \cup { <<"-", "0">> }

\* the value printed, where it came from, the threshold, the text written
\* and the value parse reads back from it
Printing(str, parsed, d, exp_thresh) ==
    [str |-> str, parsed |-> parsed, d |-> d, exp_thresh |-> exp_thresh,
     stream |-> <<>>, back |-> NoValue, pc |-> "start"]

PrintInit ==
    /\ \E exp_thresh \in Thresholds :
           \/ \E str \in PrintInputs :
                  pr = Printing(str, TRUE, parse(str), exp_thresh)
           \/ \E d \in PrintPool :
                  pr = Printing(<<>>, FALSE, d, exp_thresh)
    /\ df_lhs = NoValue
    /\ df_rhs = NoValue
    /\ df_op = "idle"
    /\ df_res = NoValue
    /\ df_finite = TRUE
    /\ df_status = "ok"
    /\ df_cnt = 0
    /\ df_cmp = NoValue
    /\ int_a = 0
    /\ int_b = 0
    /\ big_a = BigZero
    /\ big_b = BigZero
    /\ big_n = 0
    /\ big_c = BigZero
    /\ big_op = "idle"
    /\ big_res = NoValue
    /\ big_res2 = NoValue
    /\ big_err = "none"
    /\ ps = NoValue

\* std::string text = dfloat::to_string(d, exp_thresh)
PrintToString ==
    /\ pr.pc = "start"
    /\ pr' = [pr EXCEPT !.stream = to_string(pr.d, pr.exp_thresh),
                        !.pc = "printed"]
    /\ UNCHANGED <<df_lhs, df_rhs, df_op, df_res, df_finite, df_status,
                   df_cnt, df_cmp, int_a, int_b, bigvars, psvars>>

\* dfloat back = dfloat::parse(text)
PrintParseBack ==
    /\ pr.pc = "printed"
    /\ pr' = [pr EXCEPT !.back = parse(pr.stream), !.pc = "read"]
    /\ UNCHANGED <<df_lhs, df_rhs, df_op, df_res, df_finite, df_status,
                   df_cnt, df_cmp, int_a, int_b, bigvars, psvars>>

PrintNext ==
    \/ PrintToString
    \/ PrintParseBack

SpecPrint == PrintInit /\ [][PrintNext]_vars

\* the text written has an exponent part
IsScientific(stream) == \E i \in 1..Len(stream) : stream[i] = "e"

\* C19: to_string(d, t) of a finite non-zero d writes scientific notation
\* exactly when pow >= t or pow <= -t, so always when t <= 0 and never when
\* t > MAX_POW, and decimal notation otherwise; NaN is written "nan"
\* under every threshold and ZERO is written "0" when t > 0.
C19_NotationByThreshold ==
    pr.pc # "start" =>
        /\ pr.d.sign = "NAN" => pr.stream = <<"n", "a", "n">>
        /\ (pr.d.sign = "ZERO" /\ pr.exp_thresh > 0) => pr.stream = <<"0">>
        /\ pr.d.sign \in {"POS", "NEG"} =>
               /\ IsScientific(pr.stream) <=>
                      (pr.d.pow >= pr.exp_thresh \/ pr.d.pow <= -pr.exp_thresh)
               /\ pr.exp_thresh <= 0 => IsScientific(pr.stream)
               /\ pr.exp_thresh > MAX_POW => ~IsScientific(pr.stream)

\* a value whose exponent is the threshold itself, written in scientific
\* notation
C19_Witness ==
    /\ pr.pc = "printed"
    /\ pr.d.sign = "POS"
    /\ pr.exp_thresh = 2
    /\ pr.d.pow = 2
    /\ pr.stream = <<"1", ".", "0", "e", "2">>

\* C20: for every string s that parse reads as a finite value,
\* parse(to_string(parse(s))) == parse(s), to_string called as the claim
\* calls it, with the default threshold; the text read back prints as the
\* same text again, the four spellings of eleven all print as "11" and
\* "-0" prints as "0".
C20_PrintParseRoundTrip ==
    (/\ pr.pc = "read"
     /\ pr.parsed
     /\ isfinite(pr.d)
     /\ pr.exp_thresh = DefaultThresh)
        => /\ OpEq(pr.back, pr.d)
           /\ to_string(pr.back, pr.exp_thresh) = pr.stream
           /\ pr.str \in Spellings => pr.stream = <<"1", "1">>
           /\ pr.str = <<"-", "0">> => pr.stream = <<"0">>

\* the same under every threshold above 0
C20_AnyPositiveThreshold ==
    (/\ pr.pc = "read"
     /\ pr.parsed
     /\ isfinite(pr.d)
     /\ pr.exp_thresh > 0)
        => /\ OpEq(pr.back, pr.d)
           /\ to_string(pr.back, pr.exp_thresh) = pr.stream

\* the spelling with a sign, a leading zero and a trailing zero, printed
\* as "11" and read back as eleven
C20_Witness ==
    /\ pr.pc = "read"
    /\ pr.str = <<"+", "0", "1", "1", ".", "0">>
    /\ pr.exp_thresh = DefaultThresh
    /\ pr.stream = <<"1", "1">>
    /\ pr.back = DF("POS", Wide(11 * (SCALE \div BASE)), 1)
    /\ pr.d = pr.back

\* the decimal numeral of a natural number, without leading zeros
RECURSIVE Numeral(_)
Numeral(n) ==
    IF n < BASE THEN <<DigitChar(n)>>
    ELSE Numeral(n \div BASE) \o <<DigitChar(n % BASE)>>

\* the n lowest decimal digits of a natural number, highest first
RECURSIVE Padded(_, _)
Padded(m, n) ==
    IF n = 0 THEN <<>>
    ELSE Padded(m \div BASE, n - 1) \o <<DigitChar(m % BASE)>>

\* digits without the zeros at their end
RECURSIVE Stripped(_)
Stripped(digits) ==
    IF digits # <<>> /\ digits[Len(digits)] = "0"
    THEN Stripped(SubSeq(digits, 1, Len(digits) - 1))
    ELSE digits

\* the text of d in scientific notation as the format is described: sign,
\* leading digit, point, the other significant digits without trailing
\* zeros but at least one of them, e, the exponent
ScientificFormat(d) ==
    LET digits == Padded(Narrow(d.mant), SCALE_POW + 1)
        rest   == Stripped(Tail(digits))
    IN  (IF d.sign = "NEG" THEN <<"-">> ELSE <<>>)
            \o <<Head(digits), ".">>
            \o (IF rest = <<>> THEN <<"0">> ELSE rest)
            \o <<"e">>
            \o (IF d.pow < 0 THEN <<"-">> \o Numeral(-d.pow)
                ELSE Numeral(d.pow))

\* C25: the text to_string writes in scientific notation for a finite
\* non-zero value is, in this order, '-' if the value is negative, one
\* leading digit, '.', the remaining significant digits with trailing zeros
\* stripped but at least one digit, 'e', and the exponent in decimal
\* without leading zeros, with '-' only when it is negative; a denormal is
\* written with leading digit 0.
C25_ScientificFormat ==
    (/\ pr.pc # "start"
     /\ pr.d.sign \in {"POS", "NEG"}
     /\ (pr.d.pow >= pr.exp_thresh \/ pr.d.pow <= -pr.exp_thresh))
        => /\ WideLt(pr.d.mant, WideCap)
           /\ pr.stream = ScientificFormat(pr.d)

\* the same for the values parse returns and for the denormals and the
\* other values of mantissa between 1 and 10 * SCALE - 1
C25_NonZeroMantissa ==
    (/\ pr.pc # "start"
     /\ pr.d.sign \in {"POS", "NEG"}
     /\ pr.d.mant # <<>>
     /\ WideLt(pr.d.mant, WideCap)
     /\ (pr.d.pow >= pr.exp_thresh \/ pr.d.pow <= -pr.exp_thresh))
        => pr.stream = ScientificFormat(pr.d)

\* C27: the text to_string writes for a finite value is read back by parse
\* as the same value, for every finite value that parse or the arithmetic
\* operators return, denormals at MIN_POW included, and under every
\* threshold: parse(to_string(x, t)) == x.
C27_PrintedTextReadsBack ==
    (pr.pc = "read" /\ isfinite(pr.d)) => OpEq(pr.back, pr.d)

(***************************************************************************)
(* Claims on termination and on the representation of computed values.     *)
(***************************************************************************)
\* C21: every call of operator+, operator-, operator* and operator/ on
\* operands that earlier operations produced returns a value: no call loops
\* forever and none is ended by a trap.
C21_OperatorsReturn == df_status = "ok"

\* C23: every value that + - * / returns with sign POS or NEG, computed from
\* constructed and parsed values by any sequence of these operators, has
\* MIN_POW <= pow <= MAX_POW and 0 < mant < 10 * SCALE, and has mant < SCALE
\* only when pow = MIN_POW.
C23_Representation ==
    (/\ df_op \in DfBinary
     /\ df_status = "ok"
     /\ df_res.sign \in {"POS", "NEG"})
        => /\ MIN_POW <= df_res.pow
           /\ df_res.pow <= MAX_POW
           /\ df_res.mant # <<>>
           /\ WideLt(df_res.mant, WideCap)
           /\ WideLt(df_res.mant, WideScale) => df_res.pow = MIN_POW

\* the right operand operator+ is given: operator- passes -other
AddedOperand == IF df_op = "sub" THEN Neg(df_rhs) ELSE df_rhs

\* the last call was an addition of operands of different signs and
\* unequal magnitudes
AddsDifferentSigns ==
    /\ df_op \in {"add", "sub"}
    /\ df_status = "ok"
    /\ df_lhs.sign \in {"POS", "NEG"}
    /\ AddedOperand.sign \in {"POS", "NEG"}
    /\ df_lhs.sign # AddedOperand.sign
    /\ _compareMagnitudeTo(df_lhs, AddedOperand) # "EQUAL"

\* the operand _compareMagnitudeTo finds larger, and the other one
LargerOperand ==
    IF _compareMagnitudeTo(df_lhs, AddedOperand) = "MORE"
    THEN df_lhs ELSE AddedOperand

SmallerOperand ==
    IF _compareMagnitudeTo(df_lhs, AddedOperand) = "MORE"
    THEN AddedOperand ELSE df_lhs

\* C24: in an addition of operands of different signs and unequal
\* magnitudes, the mantissa of the larger operand is strictly greater than
\* the mantissa of the smaller one divided by 10 up to the exponent of the
\* larger, so the unsigned subtraction does not wrap around and the
\* mantissa of the result is not zero, and the result has the sign of the
\* larger operand; for all operands that sequences of operations produce.
C24_SubtractionNeverWraps ==
    AddsDifferentSigns =>
        /\ WideLt(AlignTo(SmallerOperand.mant, SmallerOperand.pow,
                          LargerOperand.pow),
                  LargerOperand.mant)
        /\ df_res.mant # <<>>
        /\ WideLt(df_res.mant, WideCap)
        /\ df_res.sign = LargerOperand.sign

(***************************************************************************)
(* Claims on the widths of the integers of dfloat.                         *)
(***************************************************************************)
\* the range of pow_t, and the greatest pow2_t
PowTMin == -128

PowTMax == 127

Pow2TMax == 32767

FitsPowT(n) == PowTMin <= n /\ n <= PowTMax

\* both operands of the last call are POS or NEG
FiniteOperands ==
    /\ df_lhs.sign \in {"POS", "NEG"}
    /\ df_rhs.sign \in {"POS", "NEG"}

\* operator+ on operands of one sign: a_mant + b_mant before it is stored
\* in mant_t
AlignedSum(a, b) ==
    WideAdd(AlignTo(a.mant, a.pow, b.pow), AlignTo(b.mant, b.pow, a.pow))

\* operator*: new_mant when it is cast to mant_t
MulNarrowed(a, b) ==
    LET mant0 == MulDiv(a.mant, b.mant, SCALE)
        over  == WideLe(WideCap, mant0)
        mant1 == IF over THEN WideDivSmall(mant0, BASE) ELSE mant0
        pow1  == IF over THEN a.pow + b.pow + 1 ELSE a.pow + b.pow
        n     == ScaleUp(mant1, pow1)
    IN  Underflow(n.mant, n.pow).mant

\* operator/: new_mant when it is cast to mant_t
DivNarrowed(a, b) ==
    LET n     == ScaleDown(WideDiv(WideMulSmall(a.mant, SCALE), b.mant),
                           a.pow - b.pow)
        under == WideLt(n.mant, WideScale)
        mant1 == IF under THEN WideMulSmall(n.mant, BASE) ELSE n.mant
        pow1  == IF under THEN n.pow - 1 ELSE n.pow
    IN  Underflow(mant1, pow1).mant

\* C29: in every arithmetic operator no value is changed by integer
\* wraparound or narrowing: the exponents of the operands and of the
\* result are inside the range of pow_t, the widened exponent is inside the
\* range of pow2_t, the sum of two aligned mantissas is below the
\* capacity of mant_t (MantMod), and a mantissa cast from mant2_t to mant_t
\* is below 10 * SCALE.
C29_NoWraparound ==
    (df_op \in DfBinary /\ df_status = "ok" /\ FiniteOperands) =>
        /\ FitsPowT(df_lhs.pow)
        /\ FitsPowT(df_rhs.pow)
        /\ df_res.sign \in {"POS", "NEG"} => FitsPowT(df_res.pow)
        /\ df_lhs.pow + df_rhs.pow + 1 <= Pow2TMax
        /\ df_lhs.pow - df_rhs.pow + 1 <= Pow2TMax
        /\ -Pow2TMax <= df_lhs.pow + df_rhs.pow - (SCALE_POW + 1)
        /\ -Pow2TMax <= df_lhs.pow - df_rhs.pow - 1
        /\ (df_op \in {"add", "sub"} /\ df_lhs.sign = AddedOperand.sign) =>
               WideLt(AlignedSum(df_lhs, AddedOperand), MantMod)
        /\ (df_op = "mul" /\ df_res.sign \in {"POS", "NEG"}) =>
               WideLt(MulNarrowed(df_lhs, df_rhs), WideCap)
        /\ (df_op = "div" /\ df_res.sign \in {"POS", "NEG"}
                /\ df_rhs.mant # <<>>) =>
               WideLt(DivNarrowed(df_lhs, df_rhs), WideCap)

\* the same in parse: pow and exp_pow are inside the range of pow_t at
\* every label, and the mantissa is below 10 * SCALE
C29_ParseWidths ==
    /\ FitsPowT(ps.pow)
    /\ FitsPowT(ps.exp_pow)
    /\ (/\ ps.pc = "e2"
        /\ ps.exp_pow <= CDiv(MAX_POW, BASE)
        /\ ps.exp_pow >= CDiv(MIN_POW, BASE)) =>
           /\ FitsPowT(ps.exp_pow * BASE)
           /\ FitsPowT(ps.exp_pow * BASE - (BASE - 1))
    /\ WideLt(ps.mant, WideCap)

(***************************************************************************)
(* Claims on the word-add helper of biguint.                               *)
(***************************************************************************)
\* the calls of addCarry the last operator made
CarryCalls ==
    IF big_op = "add" THEN AddCalls(big_a, big_b, 0, 0)
    ELSE IF big_op = "mul" THEN MulCalls(big_a, big_b, 0, 0, BigZero)
    ELSE <<>>

\* C30: in every call of addCarry that operator+ and operator* make, out is
\* (a + b + c) mod 2^WORD_SIZE and the carry returned is
\* (a + b + c) div 2^WORD_SIZE and is 0 or 1, never 2; and in operator* the
\* carry word, p_upper plus the carry returned, is at most 2^WORD_SIZE - 1.
C30_CarryExact ==
    \A n \in 1..Len(CarryCalls) :
        LET call == CarryCalls[n]
            ac   == addCarry(call.a, call.b, call.c)
        IN  /\ ac.out = (call.a + call.b + call.c) % WordMod
            /\ ac.carry = (call.a + call.b + call.c) \div WordMod
            /\ ac.carry \in {0, 1}
            /\ call.upper + ac.carry <= WordMax

\* a product in which a partial product of the greatest upper half there is
\* wraps the word it is added to, so that the carry word reaches
\* 2^WORD_SIZE - 1, and in which a carry greater than 1 goes up the chain
C30_Witness ==
    /\ big_op = "mul"
    /\ \E n \in 1..Len(CarryCalls) :
           /\ CarryCalls[n].upper = WordMax - 1
           /\ CarryCalls[n].a + CarryCalls[n].b >= WordMod
    /\ \E n \in 1..Len(CarryCalls) :
           /\ CarryCalls[n].b = 0
           /\ CarryCalls[n].c > 1

(***************************************************************************)
(* Claims on the long division of biguint.                                 *)
(***************************************************************************)
\* the number of bits of a biguint
BigBits == W * WORD_SIZE

\* C28: in a / b with b not zero, after every bit step the running
\* remainder is strictly less than b; shifting it left by one bit to take in
\* the next bit of a never pushes a set bit out of the top word; and when
\* the loop ends a = q * b + remainder with remainder < b.
C28_DivisionRemainder ==
    (big_op = "div" /\ big_err = "none") =>
        LET trace == BigDivTrace(big_a, big_b)
            last  == trace[BigBits]
        IN  /\ Len(trace) = BigBits
            /\ \A k \in 1..BigBits : Val(trace[k]) < Val(big_b)
            /\ \A k \in 1..(BigBits - 1) :
                   /\ _getBit(trace[k], BigBits - 1) = 0
                   /\ Val(BigShl(trace[k], 1)) = 2 * Val(trace[k])
            /\ last = BigDivRem(big_a, big_b).dividend
            /\ Val(big_a) = Val(big_res) * Val(big_b) + Val(last)
            /\ Val(last) < Val(big_b)

\* a division by a divisor with its top bit set in which the running
\* remainder fills every bit below the top one before it is shifted, and
\* which leaves a remainder
C28_Witness ==
    /\ big_op = "div"
    /\ big_err = "none"
    /\ _getBit(big_b, BigBits - 1) = 1
    /\ \E k \in 1..(BigBits - 1) :
           Val(BigDivTrace(big_a, big_b)[k]) = BigMod \div 2 - 1
    /\ Val(big_res) = 1
    /\ Val(BigDivTrace(big_a, big_b)[BigBits]) > 0

(***************************************************************************)
(* Claims on the relational operators of biguint.                          *)
(***************************************************************************)
\* the words in which a and b differ
DifferingWords(a, b) == {i \in 0..(W - 1) : a[i] # b[i]}

\* the most significant word in which a and b differ
TopDifference(a, b) ==
    CHOOSE i \in DifferingWords(a, b) : \A j \in DifferingWords(a, b) : j <= i

\* C22: for all values a and b of W words the six relational operators
\* agree with the order of the numbers a and b denote: exactly one of
\* a < b, a == b, a > b holds, the most significant word in which a and b
\* differ decides which, and <=, >= and != are the union of < with ==, the
\* union of > with ==, and the negation of ==.
C22_BigOrder ==
    big_op = "cmp" =>
        /\ big_res.lt <=> Val(big_a) < Val(big_b)
        /\ big_res.eq <=> Val(big_a) = Val(big_b)
        /\ big_res.gt <=> Val(big_a) > Val(big_b)
        /\ Cardinality({r \in {"lt", "eq", "gt"} : big_res[r]}) = 1
        /\ big_res.eq <=> DifferingWords(big_a, big_b) = {}
        /\ DifferingWords(big_a, big_b) # {} =>
               LET i == TopDifference(big_a, big_b)
               IN  /\ big_res.lt <=> big_a[i] < big_b[i]
                   /\ big_res.gt <=> big_a[i] > big_b[i]
        /\ big_res.le <=> (big_res.lt \/ big_res.eq)
        /\ big_res.ge <=> (big_res.gt \/ big_res.eq)
        /\ big_res.ne <=> ~big_res.eq

\* operands ordered one way by their top words and the other way by their
\* low words: the top words decide
C22_Witness ==
    /\ big_op = "cmp"
    /\ big_a[W - 1] < big_b[W - 1]
    /\ big_a[0] > big_b[0]
    /\ big_res.lt
    /\ big_res.le
    /\ big_res.ne
    /\ ~big_res.ge

====
